---------------------------- MODULE Spec2Model ----------------------------
(***************************************************************************)
(* A model of snyk-target-export: the bounded worker pool of runRefresh    *)
(* and runDedup, the retrying and paced HTTP transport (DoWithRetry), the  *)
(* duplicate grouping functions and the two phases of the dedup command.   *)
(*                                                                         *)
(* The module holds several specifications over one set of variables.      *)
(* Each specification moves the variables of its own part and leaves the   *)
(* variables of the other parts at their idle values.                      *)
(***************************************************************************)
EXTENDS Integers, Sequences, FiniteSets, TLC

(***************************************************************************)
(* Bounds of the model.                                                    *)
(***************************************************************************)
\* The longest list of organizations resolveOrgs returns in the model.
MaxOrgs == 2
\* The largest value of the --concurrency flag in the model.
MaxConcurrency == 2

VARIABLES
    \* ---- the worker pool (runRefresh, runDedup, main) ----
    command,        \* "refresh" or "dedup": which subcommand runs
    orgCount,       \* len(orgs)
    concurrency,    \* *concurrency, the capacity of sem
    mainPc,         \* the main goroutine: "spawn", "collect", "done"
    spawned,        \* how many iterations of the spawn loop have run
    wpc,            \* wpc[o]: the position of org o's worker goroutine
    intSt,          \* intSt[o]: the ListIntegrations sub-fetch of org o
    projSt,         \* projSt[o]: the FetchProjects (sub-)fetch of org o
    sem,            \* number of tokens held in the sem channel
    wg,             \* the WaitGroup counter
    results,        \* the buffered results channel, oldest first
    closed,         \* whether close(results) has run
    processedOrgs,  \* results received without an error
    failedOrgs,     \* results received with an error
    delivered,      \* delivered[o]: results of org o received so far
    \* ---- the transport (DoWithRetry and the rate limiter) ----
    callers,        \* the goroutines that call DoWithRetry in this run
    server,         \* the outcomes client.Do can have in this run
    ctxDone,        \* whether ctx has been cancelled
    globalLimiter,  \* the package variable: NoLimiter (nil) or a limiter
    tickerC,        \* tickerC[l]: limiter l's ticker.C, a channel that
                    \* buffers one tick: "none" (limiter not created),
                    \* "empty" or "tick"
    rpc,            \* rpc[c]: the position of caller c in DoWithRetry:
                    \* "idle", "call", "initWrite", "check", "wait",
                    \* "parked", "do", "sleep" or "returned"
    attempt,        \* attempt[c]: the loop variable
    rlim,           \* rlim[c]: the limiter caller c waits on
    lastErr,        \* lastErr[c]
    lastResp,       \* lastResp[c]: its status code, NoResp for nil
    lastOutcome,    \* lastOutcome[c]: what the latest client.Do produced
    sleepFor,       \* sleepFor[c]: seconds of the time.Sleep in progress
    ret,            \* ret[c]: what DoWithRetry returned
    dispatched,     \* dispatched[c]: calls of client.Do so far
    waits,          \* waits[c]: limiter waits that returned nil so far
    ticksConsumed,  \* ticks received from any ticker.C so far
    \* ---- one call of a grouping function (dedup.go) or of a helper ----
    fnPc,           \* "idle", "called" or "returned"
    fnName,         \* which function the call is to
    fnList,         \* its first argument: the projects / items (for a
                    \* helper of another file: the record of its arguments)
    fnConsiderOrigin, \* its second argument
    fnOut,          \* the slice of groups it returned (the helper's value)
    \* ---- the dedup command after resolveOrgs (runDedup) ----
    doDelete,       \* *doDelete: FALSE is the dry run
    withinOrg,      \* *withinOrg
    considerOrigin, \* *considerOrigin
    remoteProjects, \* remoteProjects[o]: what FetchProjects(o) returns now
    remoteTargets,  \* remoteTargets[o]: what FetchTargets(o) returns now
    dpc,            \* "idle", "scan", "phase1", "phase2", "done"
    scanned,        \* the orgs whose dedupResult has been received
    scanFailed,     \* the failedOrgs counter of runDedup
    orgsWithDuplicates, \* []dedupCollectedResult
    allProjectsInOrg,   \* []projectInOrg
    groupsWide,     \* the groups findDuplicateGroupsGroupWide returned
    p1Todo,         \* the rest of the Phase 1 loops, flattened in the order
                    \* the code runs them
    orgsAffected,   \* the keys of the orgsAffected map
    totalDuplicates,
    totalDeleted,
    totalFailed,
    p2Orgs,         \* orgs "range orgsAffected" has yet to yield
    p2Org,          \* the org the cleanup loop is in
    p2Todo,         \* the targets the inner loops have yet to handle
    targetsDeleted,
    targetsFailed,
    deleteProjectCalls, \* every api.DeleteProject call so far, in order
    deleteTargetCalls,  \* every api.DeleteTarget call so far, in order
    reportedProjects,   \* the "delete:" lines the dry run printed
    reportedTargets,    \* the "would be deleted" lines it printed
    p2Skipped,          \* the orgs the cleanup left after a fetch failed
    \* ---- what the refresh command does with the data (refresh.go) ----
    integrationType,    \* *integrationType, "" for no filter
    refreshOrgs,        \* the orgs resolveOrgs returned
    apiReply,           \* apiReply[o]: what ListIntegrations(o) and
                        \* FetchProjects(o) return in this run
    orgPc,              \* orgPc[o]: "none", "pending", "processed" (its
                        \* result is in the channel), "merged" or "failed"
                        \* (the collector has received it)
    orgRes,             \* orgRes[o]: the refreshOrgResult of org o
    refreshOut,         \* out, the RefreshOutput
    \* ---- one call of FetchProjects (internal/api.go) ----
    fetchPc,            \* "idle", "loop" or "returned"
    apiBase,            \* GetSnykAPIBaseURL(), parsed
    nextURL,            \* the URL of the next request, NoURL for ""
    fetchGot,           \* projects, the slice gathered so far
    fetchRet,           \* what the call returned
    requested,          \* the URL of every request sent, in order
    lastLink,           \* links.next of the latest page, before validation
    lastStatus,         \* resp.StatusCode of the latest answer, 0 if none
    served,             \* the pages decoded so far: projects and links.next
    \* ---- one call of FetchOrgs (internal/api.go) ----
    orgsPc,             \* "idle", "loop" or "returned"
    page,               \* the number of the page to request next
    allOrgs,            \* the orgs gathered so far
    orgsRet,            \* what the call returned
    pagesRequested,     \* the page number of every request sent, in order
    orgPages            \* the orgs of every page received, in order

schedVars == <<command, orgCount, concurrency, mainPc, spawned, wpc, intSt,
               projSt, sem, wg, results, closed, processedOrgs, failedOrgs,
               delivered>>

retryVars == <<callers, server, ctxDone, globalLimiter, tickerC, rpc, attempt,
               rlim, lastErr, lastResp, lastOutcome, sleepFor, ret, dispatched,
               waits, ticksConsumed>>

groupVars == <<fnPc, fnName, fnList, fnConsiderOrigin, fnOut>>

dedupVars == <<doDelete, withinOrg, considerOrigin, remoteProjects,
               remoteTargets, dpc, scanned, scanFailed, orgsWithDuplicates,
               allProjectsInOrg, groupsWide, p1Todo, orgsAffected,
               totalDuplicates,
               totalDeleted, totalFailed, p2Orgs, p2Org, p2Todo,
               targetsDeleted, targetsFailed, deleteProjectCalls,
               deleteTargetCalls, reportedProjects, reportedTargets,
               p2Skipped>>

importVars == <<integrationType, refreshOrgs, apiReply, orgPc, orgRes,
                refreshOut>>

fetchVars == <<fetchPc, apiBase, nextURL, fetchGot, fetchRet, requested,
               lastLink, lastStatus, served>>

orgsVars == <<orgsPc, page, allOrgs, orgsRet, pagesRequested, orgPages>>

vars == <<schedVars, retryVars, groupVars, dedupVars, importVars, fetchVars,
          orgsVars>>

\* What the actions of each part leave alone.
outsideSched == <<retryVars, groupVars, dedupVars, importVars, fetchVars,
                 orgsVars>>
outsideRetry == <<schedVars, groupVars, dedupVars, importVars, fetchVars,
                 orgsVars>>
outsideGroup == <<schedVars, retryVars, dedupVars, importVars, fetchVars,
                 orgsVars>>
outsideDedup == <<schedVars, retryVars, groupVars, importVars, fetchVars,
                 orgsVars>>
outsideImport == <<schedVars, retryVars, groupVars, dedupVars, fetchVars,
                  orgsVars>>
outsideFetch == <<schedVars, retryVars, groupVars, dedupVars, importVars,
                 orgsVars>>
outsideOrgs == <<schedVars, retryVars, groupVars, dedupVars, importVars,
                fetchVars>>

(***************************************************************************)
(* The worker pool.                                                        *)
(***************************************************************************)
OrgIds == 1..MaxOrgs

\* The orgs of this run: orgs[0..len(orgs)-1], numbered from 1.
RunOrgs == 1..orgCount

\* Workers that hold a slot: between `sem <- struct{}{}` and `<-sem`.
Holding == {o \in OrgIds : wpc[o] \in {"acquired", "fetching", "sent"}}

\* The error of a worker's result: processOrgForRefresh reads intErr first.
ResultErr(o) ==
    IF intSt[o] = "err" THEN "integrations"
    ELSE IF projSt[o] = "err" THEN "projects"
    ELSE "none"

SchedIdle ==
    /\ command = "none"
    /\ orgCount = 0
    /\ concurrency = 0
    /\ mainPc = "idle"
    /\ spawned = 0
    /\ wpc = [o \in OrgIds |-> "none"]
    /\ intSt = [o \in OrgIds |-> "idle"]
    /\ projSt = [o \in OrgIds |-> "idle"]
    /\ sem = 0
    /\ wg = 0
    /\ results = <<>>
    /\ closed = FALSE
    /\ processedOrgs = 0
    /\ failedOrgs = 0
    /\ delivered = [o \in OrgIds |-> 0]

\* The state when control reaches `results := make(chan ..., len(orgs))`.
SchedStart ==
    /\ command \in {"refresh", "dedup"}
    /\ orgCount \in 0..MaxOrgs
    /\ concurrency \in 0..MaxConcurrency
    /\ mainPc = "spawn"
    /\ spawned = 0
    /\ wpc = [o \in OrgIds |-> "none"]
    /\ intSt = [o \in OrgIds |-> "idle"]
    /\ projSt = [o \in OrgIds |-> "idle"]
    /\ sem = 0
    /\ wg = 0
    /\ results = <<>>
    /\ closed = FALSE
    /\ processedOrgs = 0
    /\ failedOrgs = 0
    /\ delivered = [o \in OrgIds |-> 0]

\* One iteration of `for _, org := range orgs { wg.Add(1); go func... }`.
Spawn ==
    /\ mainPc = "spawn"
    /\ spawned < orgCount
    /\ spawned' = spawned + 1
    /\ wg' = wg + 1
    /\ wpc' = [wpc EXCEPT ![spawned + 1] = "start"]
    /\ UNCHANGED <<command, orgCount, concurrency, mainPc, intSt, projSt, sem,
                   results, closed, processedOrgs, failedOrgs, delivered>>
    /\ UNCHANGED outsideSched

\* After the loop: `go func() { wg.Wait(); close(results) }()`, and main
\* goes on to `for res := range results`.
StartCloser ==
    /\ mainPc = "spawn"
    /\ spawned = orgCount
    /\ mainPc' = "collect"
    /\ UNCHANGED <<command, orgCount, concurrency, spawned, wpc, intSt, projSt,
                   sem, wg, results, closed, processedOrgs, failedOrgs,
                   delivered>>
    /\ UNCHANGED outsideSched

\* A pool without a semaphore: every worker starts at once.
SemAlwaysHasRoom == TRUE

\* Whether `sem <- struct{}{}` can proceed: the buffer has room.
SemHasRoom == sem < concurrency

\* `sem <- struct{}{}`: blocks while the buffer is full.
Acquire(o) ==
    /\ wpc[o] = "start"
    /\ SemHasRoom
    /\ sem' = sem + 1
    /\ wpc' = [wpc EXCEPT ![o] = "acquired"]
    /\ UNCHANGED <<command, orgCount, concurrency, mainPc, spawned, intSt,
                   projSt, wg, results, closed, processedOrgs, failedOrgs,
                   delivered>>
    /\ UNCHANGED outsideSched

\* refresh: processOrgForRefresh starts its two goroutines (innerWg.Add(2)).
\* dedup: the worker calls api.FetchProjects itself.  A fetch that starts
\* with ctx cancelled is "doomed": its first DoWithRetry returns ctx.Err().
StartFetch(o) ==
    /\ wpc[o] = "acquired"
    /\ wpc' = [wpc EXCEPT ![o] = "fetching"]
    /\ intSt' = [intSt EXCEPT ![o] =
                    IF command # "refresh" THEN "unused"
                    ELSE IF ctxDone THEN "doomed" ELSE "running"]
    /\ projSt' = [projSt EXCEPT ![o] = IF ctxDone THEN "doomed" ELSE "running"]
    /\ UNCHANGED <<command, orgCount, concurrency, mainPc, spawned, sem, wg,
                   results, closed, processedOrgs, failedOrgs, delivered>>
    /\ UNCHANGED outsideSched

\* api.ListIntegrations returns, with a map or with an error.
IntegrationsReturn(o) ==
    /\ wpc[o] = "fetching"
    /\ intSt[o] \in {"running", "doomed"}
    /\ \E outcome \in (IF intSt[o] = "doomed" THEN {"err"} ELSE {"ok", "err"}) :
        intSt' = [intSt EXCEPT ![o] = outcome]
    /\ UNCHANGED <<command, orgCount, concurrency, mainPc, spawned, wpc,
                   projSt, sem, wg, results, closed, processedOrgs, failedOrgs,
                   delivered>>
    /\ UNCHANGED outsideSched

\* api.FetchProjects returns, with a list or with an error.
ProjectsReturn(o) ==
    /\ wpc[o] = "fetching"
    /\ projSt[o] \in {"running", "doomed"}
    /\ \E outcome \in (IF projSt[o] = "doomed" THEN {"err"} ELSE {"ok", "err"}) :
        projSt' = [projSt EXCEPT ![o] = outcome]
    /\ UNCHANGED <<command, orgCount, concurrency, mainPc, spawned, wpc,
                   intSt, sem, wg, results, closed, processedOrgs, failedOrgs,
                   delivered>>
    /\ UNCHANGED outsideSched

\* A worker that returns without sending when one of its fetches failed.
SendResultUnlessFailed(o) ==
    /\ wpc[o] = "fetching"
    /\ intSt[o] \in {"ok", "err", "unused"}
    /\ projSt[o] \in {"ok", "err"}
    /\ Len(results) < orgCount
    /\ ~closed
    /\ results' = IF ResultErr(o) = "none"
                  THEN Append(results, [org |-> o, err |-> "none"])
                  ELSE results
    /\ wpc' = [wpc EXCEPT ![o] = "sent"]
    /\ UNCHANGED <<command, orgCount, concurrency, mainPc, spawned, intSt,
                   projSt, sem, wg, closed, processedOrgs, failedOrgs,
                   delivered>>
    /\ UNCHANGED outsideSched

\* A worker that goes on as soon as FetchProjects has returned.
SendResultBeforeJoin(o) ==
    /\ wpc[o] = "fetching"
    /\ projSt[o] \in {"ok", "err"}
    /\ Len(results) < orgCount
    /\ ~closed
    /\ results' = Append(results, [org |-> o, err |-> ResultErr(o)])
    /\ wpc' = [wpc EXCEPT ![o] = "sent"]
    /\ UNCHANGED <<command, orgCount, concurrency, mainPc, spawned, intSt,
                   projSt, sem, wg, closed, processedOrgs, failedOrgs,
                   delivered>>
    /\ UNCHANGED outsideSched

\* innerWg.Wait() returns (refresh) or FetchProjects has returned (dedup):
\* the worker builds its result and sends it, `results <- res`.  The buffer
\* holds len(orgs) results, so the send never blocks; the channel is still
\* open, since close(results) waits for this worker's wg.Done().
SendResult(o) ==
    /\ wpc[o] = "fetching"
    /\ intSt[o] \in {"ok", "err", "unused"}
    /\ projSt[o] \in {"ok", "err"}
    /\ Len(results) < orgCount
    /\ ~closed
    /\ results' = Append(results, [org |-> o, err |-> ResultErr(o)])
    /\ wpc' = [wpc EXCEPT ![o] = "sent"]
    /\ UNCHANGED <<command, orgCount, concurrency, mainPc, spawned, intSt,
                   projSt, sem, wg, closed, processedOrgs, failedOrgs,
                   delivered>>
    /\ UNCHANGED outsideSched

\* The first deferred call to run: `defer func() { <-sem }()`.
Release(o) ==
    /\ wpc[o] = "sent"
    /\ sem > 0
    /\ sem' = sem - 1
    /\ wpc' = [wpc EXCEPT ![o] = "released"]
    /\ UNCHANGED <<command, orgCount, concurrency, mainPc, spawned, intSt,
                   projSt, wg, results, closed, processedOrgs, failedOrgs,
                   delivered>>
    /\ UNCHANGED outsideSched

\* The last deferred call to run: `defer wg.Done()`.
WgDone(o) ==
    /\ wpc[o] = "released"
    /\ wg' = wg - 1
    /\ wpc' = [wpc EXCEPT ![o] = "done"]
    /\ UNCHANGED <<command, orgCount, concurrency, mainPc, spawned, intSt,
                   projSt, sem, results, closed, processedOrgs, failedOrgs,
                   delivered>>
    /\ UNCHANGED outsideSched

\* The closer goroutine: wg.Wait() returns when the counter is 0.
CloseResults ==
    /\ mainPc # "spawn"
    /\ wg = 0
    /\ ~closed
    /\ closed' = TRUE
    /\ UNCHANGED <<command, orgCount, concurrency, mainPc, spawned, wpc, intSt,
                   projSt, sem, wg, results, processedOrgs, failedOrgs,
                   delivered>>
    /\ UNCHANGED outsideSched

\* One iteration of `for res := range results`.
Receive ==
    /\ mainPc = "collect"
    /\ results # <<>>
    /\ LET res == Head(results) IN
        /\ results' = Tail(results)
        /\ delivered' = [delivered EXCEPT ![res.org] = @ + 1]
        /\ IF res.err # "none"
           THEN /\ failedOrgs' = failedOrgs + 1
                /\ UNCHANGED processedOrgs
           ELSE /\ processedOrgs' = processedOrgs + 1
                /\ UNCHANGED failedOrgs
    /\ UNCHANGED <<command, orgCount, concurrency, mainPc, spawned, wpc, intSt,
                   projSt, sem, wg, closed>>
    /\ UNCHANGED outsideSched

\* `range results` ends: the channel is closed and drained.
Finish ==
    /\ mainPc = "collect"
    /\ results = <<>>
    /\ closed
    /\ mainPc' = "done"
    /\ UNCHANGED <<command, orgCount, concurrency, spawned, wpc, intSt, projSt,
                   sem, wg, results, closed, processedOrgs, failedOrgs,
                   delivered>>
    /\ UNCHANGED outsideSched

\* The cancellation of the context the workers and their fetches share.
\* runRefresh and runDedup make it with context.Background() and hold no
\* cancel function: the event is the shared cancellation signal of the
\* specification, delivered from outside.
CancelRun ==
    /\ mainPc \in {"spawn", "collect"}
    /\ ~ctxDone
    /\ ctxDone' = TRUE
    /\ UNCHANGED <<callers, server, globalLimiter, tickerC, rpc, attempt, rlim,
                   lastErr, lastResp, lastOutcome, sleepFor, ret, dispatched,
                   waits, ticksConsumed>>
    /\ UNCHANGED <<schedVars, groupVars, dedupVars, importVars, fetchVars,
                   orgsVars>>

SchedStep ==
    \/ Spawn
    \/ StartCloser
    \/ \E o \in OrgIds : Acquire(o)
    \/ \E o \in OrgIds : StartFetch(o)
    \/ \E o \in OrgIds : IntegrationsReturn(o)
    \/ \E o \in OrgIds : ProjectsReturn(o)
    \/ \E o \in OrgIds : SendResult(o)
    \/ \E o \in OrgIds : Release(o)
    \/ \E o \in OrgIds : WgDone(o)
    \/ CloseResults
    \/ Receive
    \/ Finish


(***************************************************************************)
(* The transport: DoWithRetry, the retry policy and the rate limiter.      *)
(***************************************************************************)
CallerIds == {1, 2}

\* A limiter is named after the caller whose initRateLimiter created it.
LimiterIds == CallerIds
NoLimiter == 0
NoResp == 0

DefaultRetryConfig ==
    [MaxRetries |-> 5, InitialBackoff |-> 1, MaxBackoff |-> 30,
     BackoffFactor |-> 2]

\* Retry-After header values: absent, integers, an HTTP date.
RetryAfterHeaders == {"", "0", "7", "Wed, 21 Oct 2015 07:28:00 GMT"}

\* The statuses the server answers with in the model.
StatusCodes == {200, 204, 401, 403, 404, 408, 429, 500, 501, 502, 503, 504, 530}

NoOutcome == [kind |-> "none", code |-> 0, retryAfter |-> ""]
TransportError == [kind |-> "transport", code |-> 0, retryAfter |-> ""]
ReadError == [kind |-> "read", code |-> 0, retryAfter |-> ""]
Response(code, header) ==
    [kind |-> "status", code |-> code, retryAfter |-> header]

\* Everything client.Do and io.ReadAll can produce for one attempt.
AllOutcomes ==
    {TransportError, ReadError}
        \cup {Response(code, "") : code \in StatusCodes}
        \cup {Response(code, h) : code \in {429, 503}, h \in RetryAfterHeaders}

\* The outcomes of a run in which several callers are followed.
FewOutcomes == {Response(200, ""), Response(503, "")}

\* A variant that retries every 5xx status.
isRetryableStatusAny5xx(code) == code \in {408, 429} \/ code >= 500

isRetryableStatus(code) == code \in {408, 429, 500, 502, 503, 504, 530}

\* strconv.Atoi on the header values of the model.
Atoi(str) ==
    CASE str = "0" -> [ok |-> TRUE, n |-> 0]
      [] str = "7" -> [ok |-> TRUE, n |-> 7]
      [] OTHER -> [ok |-> FALSE, n |-> 0]

\* getRetryAfter, in seconds.
getRetryAfter(header) ==
    IF header = "" THEN 0
    ELSE IF Atoi(header).ok THEN Atoi(header).n
    ELSE 0

RECURSIVE BackoffLoop(_, _, _)
BackoffLoop(backoff, i, cfg) ==
    IF i = 0 THEN backoff
    ELSE BackoffLoop(backoff * cfg.BackoffFactor, i - 1, cfg)

\* A variant without the cap.
calculateBackoffUncapped(att, cfg) ==
    BackoffLoop(cfg.InitialBackoff, att, cfg)

\* calculateBackoff, in seconds.
calculateBackoff(att, cfg) ==
    LET backoff == BackoffLoop(cfg.InitialBackoff, att, cfg) IN
    IF backoff > cfg.MaxBackoff THEN cfg.MaxBackoff ELSE backoff

NoErr == [kind |-> "none", attempt |-> 0]

\* The values DoWithRetry returns: the response (its status), the kind of
\* the error (by its message), and what a retries-exhausted error wraps.
Returned(resp, errKind, wrapsErr, wrapsStatus) ==
    [resp |-> resp, err |-> errKind, wrapsErr |-> wrapsErr,
     wrapsStatus |-> wrapsStatus]

NoReturn == Returned(NoResp, "pending", NoErr, NoResp)

RetryIdle ==
    /\ callers = {}
    /\ server = {}
    /\ ctxDone = FALSE
    /\ globalLimiter = NoLimiter
    /\ tickerC = [l \in LimiterIds |-> "none"]
    /\ rpc = [c \in CallerIds |-> "idle"]
    /\ attempt = [c \in CallerIds |-> 0]
    /\ rlim = [c \in CallerIds |-> NoLimiter]
    /\ lastErr = [c \in CallerIds |-> NoErr]
    /\ lastResp = [c \in CallerIds |-> NoResp]
    /\ lastOutcome = [c \in CallerIds |-> NoOutcome]
    /\ sleepFor = [c \in CallerIds |-> 0]
    /\ ret = [c \in CallerIds |-> NoReturn]
    /\ dispatched = [c \in CallerIds |-> 0]
    /\ waits = [c \in CallerIds |-> 0]
    /\ ticksConsumed = 0

\* The callers `who` are about to enter DoWithRetry; no limiter exists yet.
RetryStart(who, outcomes) ==
    /\ callers = who
    /\ server = outcomes
    /\ ctxDone = FALSE
    /\ globalLimiter = NoLimiter
    /\ tickerC = [l \in LimiterIds |-> "none"]
    /\ rpc = [c \in CallerIds |-> IF c \in who THEN "call" ELSE "idle"]
    /\ attempt = [c \in CallerIds |-> 0]
    /\ rlim = [c \in CallerIds |-> NoLimiter]
    /\ lastErr = [c \in CallerIds |-> NoErr]
    /\ lastResp = [c \in CallerIds |-> NoResp]
    /\ lastOutcome = [c \in CallerIds |-> NoOutcome]
    /\ sleepFor = [c \in CallerIds |-> 0]
    /\ ret = [c \in CallerIds |-> NoReturn]
    /\ dispatched = [c \in CallerIds |-> 0]
    /\ waits = [c \in CallerIds |-> 0]
    /\ ticksConsumed = 0

\* The shared context is cancelled.
Cancel ==
    /\ callers # {}
    /\ ~ctxDone
    /\ ctxDone' = TRUE
    /\ UNCHANGED <<callers, server, globalLimiter, tickerC, rpc, attempt, rlim,
                   lastErr, lastResp, lastOutcome, sleepFor, ret, dispatched,
                   waits, ticksConsumed>>
    /\ UNCHANGED outsideRetry

\* The callers parked in the select of rateLimiter.wait on limiter l: they
\* found neither a tick nor a cancelled context and sleep on both channels.
Parked(l) == {c \in callers : rpc[c] = "parked" /\ rlim[c] = l}

\* A ticker fires, a non-blocking send on ticker.C: a receiver parked on
\* the channel is handed the tick and leaves wait with nil; with no
\* receiver the tick is buffered if ticker.C is empty (and dropped, which
\* changes nothing, if it is full).  A receiver that the cancellation has
\* woken is no longer on the channel.
Tick(l) ==
    /\ tickerC[l] = "empty"
    /\ IF ~ctxDone /\ Parked(l) # {}
       THEN /\ \E c \in Parked(l) :
                /\ rpc' = [rpc EXCEPT ![c] = "do"]
                /\ waits' = [waits EXCEPT ![c] = @ + 1]
            /\ ticksConsumed' = ticksConsumed + 1
            /\ UNCHANGED tickerC
       ELSE /\ tickerC' = [tickerC EXCEPT ![l] = "tick"]
            /\ UNCHANGED <<rpc, waits, ticksConsumed>>
    /\ UNCHANGED <<callers, server, ctxDone, globalLimiter, attempt, rlim,
                   lastErr, lastResp, lastOutcome, sleepFor, ret, dispatched>>
    /\ UNCHANGED outsideRetry

\* initRateLimiter, the test `globalLimiter == nil`.  The variable is not
\* synchronized: the write of another caller may fall between this read
\* and this caller's own write.
InitRead(c) ==
    /\ rpc[c] = "call"
    /\ rpc' = [rpc EXCEPT ![c] =
                  IF globalLimiter = NoLimiter THEN "initWrite" ELSE "check"]
    /\ UNCHANGED <<callers, server, ctxDone, globalLimiter, tickerC, attempt,
                   rlim, lastErr, lastResp, lastOutcome, sleepFor, ret,
                   dispatched, waits, ticksConsumed>>
    /\ UNCHANGED outsideRetry

\* initRateLimiter, `globalLimiter = &rateLimiter{ticker: time.NewTicker(...)}`.
InitWrite(c) ==
    /\ rpc[c] = "initWrite"
    /\ tickerC' = [tickerC EXCEPT ![c] = "empty"]
    /\ globalLimiter' = c
    /\ rpc' = [rpc EXCEPT ![c] = "check"]
    /\ UNCHANGED <<callers, server, ctxDone, attempt, rlim, lastErr, lastResp,
                   lastOutcome, sleepFor, ret, dispatched, waits,
                   ticksConsumed>>
    /\ UNCHANGED outsideRetry

\* What DoWithRetry returns after the loop.
ExhaustedReturn(c) ==
    IF lastErr[c] # NoErr
    THEN Returned(lastResp[c], "max retries exceeded", lastErr[c], NoResp)
    ELSE IF lastResp[c] # NoResp
    THEN Returned(lastResp[c], "max retries exceeded", NoErr, lastResp[c])
    ELSE Returned(NoResp, "max retries exceeded", NoErr, NoResp)

\* The loop test `attempt <= cfg.MaxRetries`, the test of ctx.Err(), and the
\* call of globalLimiter.wait(ctx), which reads the package variable.
LoopTop(c) ==
    /\ rpc[c] = "check"
    /\ IF attempt[c] > DefaultRetryConfig.MaxRetries
       THEN /\ rpc' = [rpc EXCEPT ![c] = "returned"]
            /\ ret' = [ret EXCEPT ![c] = ExhaustedReturn(c)]
            /\ UNCHANGED rlim
       ELSE IF ctxDone
       THEN /\ rpc' = [rpc EXCEPT ![c] = "returned"]
            /\ ret' = [ret EXCEPT ![c] =
                          Returned(NoResp, "context canceled", NoErr, NoResp)]
            /\ UNCHANGED rlim
       ELSE /\ rpc' = [rpc EXCEPT ![c] = "wait"]
            /\ rlim' = [rlim EXCEPT ![c] = globalLimiter]
            /\ UNCHANGED ret
    /\ UNCHANGED <<callers, server, ctxDone, globalLimiter, tickerC, attempt,
                   lastErr, lastResp, lastOutcome, sleepFor, dispatched, waits,
                   ticksConsumed>>
    /\ UNCHANGED outsideRetry

\* rateLimiter.wait, the select with no case ready: the caller blocks.
Park(c) ==
    /\ rpc[c] = "wait"
    /\ tickerC[rlim[c]] = "empty"
    /\ ~ctxDone
    /\ rpc' = [rpc EXCEPT ![c] = "parked"]
    /\ UNCHANGED <<callers, server, ctxDone, globalLimiter, tickerC, attempt,
                   rlim, lastErr, lastResp, lastOutcome, sleepFor, ret,
                   dispatched, waits, ticksConsumed>>
    /\ UNCHANGED outsideRetry

\* rateLimiter.wait, `case <-rl.ticker.C: return nil`, taken by a caller
\* that finds a tick buffered when it enters the select (with the context
\* cancelled as well, the select takes either case).
WaitTick(c) ==
    /\ rpc[c] = "wait"
    /\ tickerC[rlim[c]] = "tick"
    /\ tickerC' = [tickerC EXCEPT ![rlim[c]] = "empty"]
    /\ ticksConsumed' = ticksConsumed + 1
    /\ waits' = [waits EXCEPT ![c] = @ + 1]
    /\ rpc' = [rpc EXCEPT ![c] = "do"]
    /\ UNCHANGED <<callers, server, ctxDone, globalLimiter, attempt, rlim,
                   lastErr, lastResp, lastOutcome, sleepFor, ret, dispatched>>
    /\ UNCHANGED outsideRetry

\* A wait that has no case for ctx.Done(): after the cancellation it still
\* takes a tick.
WaitIgnoresCancel(c) ==
    /\ rpc[c] \in {"wait", "parked"}
    /\ ctxDone
    /\ tickerC[rlim[c]] = "tick"
    /\ tickerC' = [tickerC EXCEPT ![rlim[c]] = "empty"]
    /\ ticksConsumed' = ticksConsumed + 1
    /\ waits' = [waits EXCEPT ![c] = @ + 1]
    /\ rpc' = [rpc EXCEPT ![c] = "do"]
    /\ UNCHANGED <<callers, server, ctxDone, globalLimiter, attempt, rlim,
                   lastErr, lastResp, lastOutcome, sleepFor, ret, dispatched>>
    /\ UNCHANGED outsideRetry

\* rateLimiter.wait, `case <-ctx.Done(): return ctx.Err()`, which
\* DoWithRetry returns as "rate limiter: %w": taken by a caller that finds
\* the context cancelled when it enters the select, and by a parked caller
\* that the cancellation wakes.
WaitCancelled(c) ==
    /\ rpc[c] \in {"wait", "parked"}
    /\ ctxDone
    /\ rpc' = [rpc EXCEPT ![c] = "returned"]
    /\ ret' = [ret EXCEPT ![c] =
                  Returned(NoResp, "rate limiter", NoErr, NoResp)]
    /\ UNCHANGED <<callers, server, ctxDone, globalLimiter, tickerC, attempt,
                   rlim, lastErr, lastResp, lastOutcome, sleepFor, dispatched,
                   waits, ticksConsumed>>
    /\ UNCHANGED outsideRetry

\* A variant without the fail-fast branch for 401.
ClassifyWithoutAuth(code) ==
    IF code >= 200 /\ code < 300 THEN "success"
    ELSE IF code = 429 THEN "rate limited"
    ELSE IF isRetryableStatus(code) THEN "retryable"
    ELSE "other"

\* A variant that treats every remaining non-2xx status as retryable.
ClassifyRetriesOther(code) ==
    IF code >= 200 /\ code < 300 THEN "success"
    ELSE IF code = 401 THEN "auth"
    ELSE IF code = 429 THEN "rate limited"
    ELSE "retryable"

\* The branch DoWithRetry takes on a response with status `code`.
Classify(code) ==
    IF code >= 200 /\ code < 300 THEN "success"
    ELSE IF code = 401 THEN "auth"
    ELSE IF code = 429 THEN "rate limited"
    ELSE IF isRetryableStatus(code) THEN "retryable"
    ELSE "other"

\* The wait before the next attempt after a retryable outcome.
RetryDelay(c, outcome) ==
    IF outcome.kind = "status" /\ Classify(outcome.code) = "rate limited"
          /\ getRetryAfter(outcome.retryAfter) # 0
    THEN getRetryAfter(outcome.retryAfter)
    ELSE calculateBackoff(attempt[c], DefaultRetryConfig)

\* `if attempt < cfg.MaxRetries { time.Sleep(...) }; continue`.
SleepThenContinue(c, outcome) ==
    IF attempt[c] < DefaultRetryConfig.MaxRetries
    THEN /\ rpc' = [rpc EXCEPT ![c] = "sleep"]
         /\ sleepFor' = [sleepFor EXCEPT ![c] = RetryDelay(c, outcome)]
         /\ UNCHANGED attempt
    ELSE /\ rpc' = [rpc EXCEPT ![c] = "check"]
         /\ attempt' = [attempt EXCEPT ![c] = @ + 1]
         /\ UNCHANGED sleepFor

\* One attempt: client.Do(reqClone), the read of the body, and the branch
\* on the outcome.  With ctx cancelled client.Do returns an error.
Do(c) ==
    /\ rpc[c] = "do"
    /\ \E outcome \in (IF ctxDone THEN {TransportError} ELSE server) :
        /\ dispatched' = [dispatched EXCEPT ![c] = @ + 1]
        /\ lastOutcome' = [lastOutcome EXCEPT ![c] = outcome]
        /\ IF outcome.kind \in {"transport", "read"}
           THEN /\ lastErr' = [lastErr EXCEPT ![c] =
                                  [kind |-> outcome.kind,
                                   attempt |-> attempt[c]]]
                /\ SleepThenContinue(c, outcome)
                /\ UNCHANGED <<lastResp, ret>>
           ELSE /\ lastResp' = [lastResp EXCEPT ![c] = outcome.code]
                /\ UNCHANGED lastErr
                /\ CASE Classify(outcome.code) = "success" ->
                          /\ rpc' = [rpc EXCEPT ![c] = "returned"]
                          /\ ret' = [ret EXCEPT ![c] =
                                Returned(outcome.code, "nil", NoErr, NoResp)]
                          /\ UNCHANGED <<attempt, sleepFor>>
                     [] Classify(outcome.code) = "auth" ->
                          /\ rpc' = [rpc EXCEPT ![c] = "returned"]
                          /\ ret' = [ret EXCEPT ![c] =
                                Returned(outcome.code,
                                         "authentication failed (401)",
                                         NoErr, NoResp)]
                          /\ UNCHANGED <<attempt, sleepFor>>
                     [] Classify(outcome.code) \in
                            {"rate limited", "retryable"} ->
                          /\ SleepThenContinue(c, outcome)
                          /\ UNCHANGED ret
                     [] OTHER ->
                          /\ rpc' = [rpc EXCEPT ![c] = "returned"]
                          /\ ret' = [ret EXCEPT ![c] =
                                Returned(outcome.code, "nil", NoErr, NoResp)]
                          /\ UNCHANGED <<attempt, sleepFor>>
    /\ UNCHANGED <<callers, server, ctxDone, globalLimiter, tickerC, rlim,
                   waits, ticksConsumed>>
    /\ UNCHANGED outsideRetry

\* A variant whose retries skip the loop top and the limiter.
WakeWithoutWait(c) ==
    /\ rpc[c] = "sleep"
    /\ rpc' = [rpc EXCEPT ![c] = "do"]
    /\ attempt' = [attempt EXCEPT ![c] = @ + 1]
    /\ sleepFor' = [sleepFor EXCEPT ![c] = 0]
    /\ UNCHANGED <<callers, server, ctxDone, globalLimiter, tickerC, rlim,
                   lastErr, lastResp, lastOutcome, ret, dispatched, waits,
                   ticksConsumed>>
    /\ UNCHANGED outsideRetry

\* time.Sleep returns (it does not watch ctx), then `continue`: attempt++.
Wake(c) ==
    /\ rpc[c] = "sleep"
    /\ rpc' = [rpc EXCEPT ![c] = "check"]
    /\ attempt' = [attempt EXCEPT ![c] = @ + 1]
    /\ sleepFor' = [sleepFor EXCEPT ![c] = 0]
    /\ UNCHANGED <<callers, server, ctxDone, globalLimiter, tickerC, rlim,
                   lastErr, lastResp, lastOutcome, ret, dispatched, waits,
                   ticksConsumed>>
    /\ UNCHANGED outsideRetry

RetryStep ==
    \/ Cancel
    \/ \E l \in LimiterIds : Tick(l)
    \/ \E c \in CallerIds : InitRead(c)
    \/ \E c \in CallerIds : InitWrite(c)
    \/ \E c \in CallerIds : LoopTop(c)
    \/ \E c \in CallerIds : Park(c)
    \/ \E c \in CallerIds : WaitTick(c)
    \/ \E c \in CallerIds : WaitCancelled(c)
    \/ \E c \in CallerIds : Do(c)
    \/ \E c \in CallerIds : Wake(c)

(***************************************************************************)
(* The grouping functions of the dedup command.                            *)
(*                                                                         *)
(* A project is a record of the fields the dedup code reads.  Created is a *)
(* string that the code compares with Go's <, byte by byte; the model      *)
(* writes such a string as the sequence of its characters' ranks.  The org *)
(* field is the organization the project was fetched from: the orgID of    *)
(* the projectInOrg wrapper and of the dedupCollectedResult.               *)
(***************************************************************************)
\* The longest argument list of a grouping function in the model.
MaxProjects == 3

DedupOrgs == {"org-1", "org-2"}
ProjectNames == {"repo-a", "repo-b"}
ProjectOrigins == {"github", ""}
\* "2020-01-01" and "2020-01-02".
CreatedValues == {<<2020, 1, 1>>, <<2020, 1, 2>>}

\* Go's < on strings.
RECURSIVE StringLess(_, _)
StringLess(a, b) ==
    IF b = <<>> THEN FALSE
    ELSE IF a = <<>> THEN TRUE
    ELSE IF Head(a) # Head(b) THEN Head(a) < Head(b)
    ELSE StringLess(Tail(a), Tail(b))

\* A variant that groups by name alone.
duplicateGroupKeyByName(p, withOrigin) == <<p.name>>

\* Name + "\x00" + Origin, or Name: the separator occurs in no name and no
\* origin, so the composite key is the pair.
duplicateGroupKey(p, withOrigin) ==
    IF withOrigin /\ p.origin # ""
    THEN <<p.name, p.origin>>
    ELSE <<p.name>>

\* The map the first loop builds: each key's projects in argument order.
grouped(list, withOrigin) ==
    [k \in {duplicateGroupKey(list[i], withOrigin) : i \in DOMAIN list} |->
        SelectSeq(list, LAMBDA p : duplicateGroupKey(p, withOrigin) = k)]

\* The less function passed to sort.Slice.
CreatedLess(p, q) == StringLess(p.created, q.created)

\* A grouping that leaves each group in argument order.
SortSliceSkipped(projs) == {projs}

\* sort.Slice(projs, less): the slice ends up as a permutation of itself
\* in which no element is less than an earlier one.  sort.Slice is not a
\* stable sort, so every such permutation is a possible result.
SortSlice(projs) ==
    {q \in {[i \in 1..Len(projs) |-> projs[f[i]]] :
                f \in Permutations(1..Len(projs))} :
        \A i, j \in 1..Len(q) : i < j => ~CreatedLess(q[j], q[i])}

\* The second loop: it ranges over a map, so the groups come out in any
\* order; keys with fewer than two projects are skipped.
RECURSIVE RangeGrouped(_, _)
RangeGrouped(g, keys) ==
    IF keys = {} THEN {<<>>}
    ELSE UNION {{<<[key |-> k, projects |-> projs]>> \o rest :
                    projs \in SortSlice(g[k]),
                    rest \in RangeGrouped(g, keys \ {k})} : k \in keys}

\* Every slice findDuplicateGroups can return.
findDuplicateGroups(projects, withOrigin) ==
    LET g == grouped(projects, withOrigin)
    IN RangeGrouped(g, {k \in DOMAIN g : Len(g[k]) >= 2})

\* Every slice findDuplicateGroupsGroupWide can return.
findDuplicateGroupsGroupWide(items, withOrigin) ==
    LET g == grouped(items, withOrigin)
    IN {[n \in DOMAIN out |-> [key |-> out[n].key, items |-> out[n].projects]] :
            out \in RangeGrouped(g, {k \in DOMAIN g : Len(g[k]) >= 2})}

\* The projects one FetchProjects call can return: any list, identified by
\* their position in it.
ProjectLists(org, maxLen) ==
    UNION {{[i \in 1..n |-> [id |-> i, org |-> org, name |-> f[i].name,
                             origin |-> f[i].origin, created |-> f[i].created,
                             target |-> ""]] :
                f \in [1..n -> [name : ProjectNames, origin : ProjectOrigins,
                                created : CreatedValues]]} :
           n \in 0..maxLen}

\* allProjectsInOrg: the list of one org, then the list of the other, in
\* the order their results arrived.
ItemLists(maxLen) ==
    {[i \in 1..Len(l) |->
        [l[i] EXCEPT !.org = IF (i <= k) = first THEN "org-1" ELSE "org-2"]] :
        l \in ProjectLists("org-1", maxLen), k \in 0..maxLen,
        first \in BOOLEAN}

GroupIdle ==
    /\ fnPc = "idle"
    /\ fnName = "none"
    /\ fnList = <<>>
    /\ fnConsiderOrigin = FALSE
    /\ fnOut = <<>>

GroupStart ==
    /\ fnPc = "called"
    /\ fnName \in {"findDuplicateGroups", "findDuplicateGroupsGroupWide"}
    /\ fnList \in IF fnName = "findDuplicateGroups"
                  THEN ProjectLists("org-1", MaxProjects)
                  ELSE ItemLists(MaxProjects)
    /\ fnConsiderOrigin \in BOOLEAN
    /\ fnOut = <<>>

ReturnGroups ==
    /\ fnPc = "called"
    /\ fnName = "findDuplicateGroups"
    /\ fnOut' \in findDuplicateGroups(fnList, fnConsiderOrigin)
    /\ fnPc' = "returned"
    /\ UNCHANGED <<fnName, fnList, fnConsiderOrigin>>
    /\ UNCHANGED outsideGroup

ReturnGroupsGroupWide ==
    /\ fnPc = "called"
    /\ fnName = "findDuplicateGroupsGroupWide"
    /\ fnOut' \in findDuplicateGroupsGroupWide(fnList, fnConsiderOrigin)
    /\ fnPc' = "returned"
    /\ UNCHANGED <<fnName, fnList, fnConsiderOrigin>>
    /\ UNCHANGED outsideGroup

GroupStep == ReturnGroups \/ ReturnGroupsGroupWide

(***************************************************************************)
(* The dedup command: the collecting loop of runDedup, Phase 1             *)
(* (reportAndDeleteDuplicates and its group-wide twin) and Phase 2         *)
(* (cleanupEmptyTargets), against a remote API that holds the projects and *)
(* the targets of two organizations.                                       *)
(***************************************************************************)
RemoteProjectIds == {1, 2, 3, 4}

\* The targets of the two organizations when the command starts: in each,
\* one display name with two targets and one with a single target.
InitialTargets ==
    [o \in DedupOrgs |->
        IF o = "org-1"
        THEN <<[id |-> "t1", org |-> o, displayName |-> "repo-a"],
               [id |-> "t2", org |-> o, displayName |-> "repo-a"],
               [id |-> "t3", org |-> o, displayName |-> "repo-b"]>>
        ELSE <<[id |-> "t4", org |-> o, displayName |-> "repo-a"],
               [id |-> "t5", org |-> o, displayName |-> "repo-b"],
               [id |-> "t6", org |-> o, displayName |-> "repo-b"]>>]

\* The created and origin attributes of the four projects: the creation
\* times hold a tie and an inversion against the order of the listing.
InitialAttributes ==
    <<[created |-> <<2020, 1, 2>>, origin |-> "github"],
      [created |-> <<2020, 1, 1>>, origin |-> "github"],
      [created |-> <<2020, 1, 1>>, origin |-> ""],
      [created |-> <<2020, 1, 2>>, origin |-> "github"]>>

\* The projects of the two organizations when the command starts: each
\* project hangs off one target, belongs to that target's organization and
\* is named after that target's repository.  Projects 1 and 2 are in
\* org-1, project 4 is in org-2 and project 3 is in either.  FetchProjects
\* lists an organization's projects in the order of their ids.
InitialProjects ==
    {[o \in DedupOrgs |->
        SelectSeq([i \in RemoteProjectIds |->
                      [id |-> i, org |-> t[i].org, name |-> t[i].displayName,
                       origin |-> InitialAttributes[i].origin,
                       created |-> InitialAttributes[i].created,
                       target |-> t[i].id]],
                  LAMBDA p : p.org = o)] :
        t \in {u \in [RemoteProjectIds ->
                        UNION {{InitialTargets[o][n] :
                                    n \in DOMAIN InitialTargets[o]} :
                               o \in DedupOrgs}] :
                 /\ u[1].org = "org-1"
                 /\ u[2].org = "org-1"
                 /\ u[4].org = "org-2"}}

\* The remote API's DELETE of a project and of a target, when it succeeds.
RemoteDelete(remote, org, id) ==
    [remote EXCEPT ![org] = SelectSeq(@, LAMBDA x : x.id # id)]

RECURSIVE Concat(_)
Concat(ss) == IF ss = <<>> THEN <<>> ELSE Head(ss) \o Concat(Tail(ss))

NoProject == [id |-> 0]

\* A variant that keeps the last member of a group and visits the others.
GroupIterationsKeepLast(members) ==
    <<[kind |-> "group", org |-> "", n |-> Len(members) - 1,
       project |-> NoProject]>>
    \o [i \in 1..Len(members) - 1 |->
          [kind |-> "dup", org |-> members[i].org, n |-> 0,
           project |-> members[i]]]

\* The iterations of "for _, g := range ..." and of its inner
\* "for _, d := range dupes": the group's entry, then its duplicates.
GroupIterations(members) ==
    <<[kind |-> "group", org |-> "", n |-> Len(members) - 1,
       project |-> NoProject]>>
    \o [i \in 1..Len(members) - 1 |->
          [kind |-> "dup", org |-> members[i + 1].org, n |-> 0,
           project |-> members[i + 1]]]

\* The iterations of reportAndDeleteDuplicates over orgsWithDuplicates.
Iterations(collected) ==
    Concat([r \in DOMAIN collected |->
        <<[kind |-> "org", org |-> collected[r].orgID, n |-> 0,
           project |-> NoProject]>>
        \o Concat([g \in DOMAIN collected[r].groups |->
              GroupIterations(collected[r].groups[g].projects)])])

\* The iterations of reportAndDeleteDuplicatesGroupWide over groupsWide.
IterationsGroupWide(groups) ==
    Concat([g \in DOMAIN groups |-> GroupIterations(groups[g].items)])

DedupIdle ==
    /\ doDelete = FALSE
    /\ withinOrg = FALSE
    /\ considerOrigin = FALSE
    /\ remoteProjects = <<>>
    /\ remoteTargets = <<>>
    /\ dpc = "idle"
    /\ scanned = {}
    /\ scanFailed = 0
    /\ orgsWithDuplicates = <<>>
    /\ allProjectsInOrg = <<>>
    /\ groupsWide = <<>>
    /\ p1Todo = <<>>
    /\ orgsAffected = {}
    /\ totalDuplicates = 0
    /\ totalDeleted = 0
    /\ totalFailed = 0
    /\ p2Orgs = {}
    /\ p2Org = ""
    /\ p2Todo = <<>>
    /\ targetsDeleted = 0
    /\ targetsFailed = 0
    /\ deleteProjectCalls = <<>>
    /\ deleteTargetCalls = <<>>
    /\ reportedProjects = <<>>
    /\ reportedTargets = <<>>
    /\ p2Skipped = {}

\* runDedup after resolveOrgs returned both organizations.
DedupStart ==
    /\ doDelete \in BOOLEAN
    /\ withinOrg \in BOOLEAN
    /\ considerOrigin \in BOOLEAN
    /\ remoteProjects \in InitialProjects
    /\ remoteTargets = InitialTargets
    /\ dpc = "scan"
    /\ scanned = {}
    /\ scanFailed = 0
    /\ orgsWithDuplicates = <<>>
    /\ allProjectsInOrg = <<>>
    /\ groupsWide = <<>>
    /\ p1Todo = <<>>
    /\ orgsAffected = {}
    /\ totalDuplicates = 0
    /\ totalDeleted = 0
    /\ totalFailed = 0
    /\ p2Orgs = {}
    /\ p2Org = ""
    /\ p2Todo = <<>>
    /\ targetsDeleted = 0
    /\ targetsFailed = 0
    /\ deleteProjectCalls = <<>>
    /\ deleteTargetCalls = <<>>
    /\ reportedProjects = <<>>
    /\ reportedTargets = <<>>
    /\ p2Skipped = {}

flagVars == <<doDelete, withinOrg, considerOrigin>>

collectVars == <<scanned, scanFailed, orgsWithDuplicates, allProjectsInOrg>>

phase1Vars == <<groupsWide, p1Todo, orgsAffected, totalDuplicates,
                totalDeleted, totalFailed, deleteProjectCalls,
                reportedProjects>>

phase2Vars == <<p2Orgs, p2Org, p2Todo, targetsDeleted, targetsFailed,
                deleteTargetCalls, reportedTargets, p2Skipped>>

\* One iteration of "for res := range results": the worker of org o
\* fetched its projects (or failed to) and grouped them, and the main
\* goroutine files the result.  Results arrive in any order.
ReceiveScan(o) ==
    /\ dpc = "scan"
    /\ o \notin scanned
    /\ scanned' = scanned \cup {o}
    /\ \E fetched \in BOOLEAN :
        \E groups \in findDuplicateGroups(remoteProjects[o], considerOrigin) :
            IF ~fetched
            THEN /\ scanFailed' = scanFailed + 1
                 /\ UNCHANGED <<orgsWithDuplicates, allProjectsInOrg>>
            ELSE IF withinOrg
            THEN /\ orgsWithDuplicates' =
                        IF Len(groups) > 0
                        THEN Append(orgsWithDuplicates,
                                    [orgID |-> o, groups |-> groups])
                        ELSE orgsWithDuplicates
                 /\ UNCHANGED <<scanFailed, allProjectsInOrg>>
            ELSE /\ allProjectsInOrg' = allProjectsInOrg \o remoteProjects[o]
                 /\ UNCHANGED <<scanFailed, orgsWithDuplicates>>
    /\ UNCHANGED <<flagVars, remoteProjects, remoteTargets, dpc>>
    /\ UNCHANGED <<phase1Vars, phase2Vars>>
    /\ UNCHANGED outsideDedup

\* The results channel is closed: Phase 1 starts with its loops ahead.
StartPhase1 ==
    /\ dpc = "scan"
    /\ scanned = DedupOrgs
    /\ dpc' = "phase1"
    /\ IF withinOrg
       THEN /\ p1Todo' = Iterations(orgsWithDuplicates)
            /\ UNCHANGED groupsWide
       ELSE \E found \in
                findDuplicateGroupsGroupWide(allProjectsInOrg, considerOrigin) :
                /\ groupsWide' = found
                /\ p1Todo' = IterationsGroupWide(found)
    /\ UNCHANGED <<orgsAffected, totalDuplicates, totalDeleted, totalFailed,
                   deleteProjectCalls, reportedProjects>>
    /\ UNCHANGED <<flagVars, remoteProjects, remoteTargets, collectVars>>
    /\ UNCHANGED phase2Vars
    /\ UNCHANGED outsideDedup

\* The bookkeeping at the head of the two outer loops:
\* orgsAffected[res.orgID] = true and totalDuplicates += len(dupes).
EnterLoop ==
    /\ dpc = "phase1"
    /\ p1Todo # <<>>
    /\ Head(p1Todo).kind \in {"org", "group"}
    /\ p1Todo' = Tail(p1Todo)
    /\ orgsAffected' = IF Head(p1Todo).kind = "org"
                       THEN orgsAffected \cup {Head(p1Todo).org}
                       ELSE orgsAffected
    /\ totalDuplicates' = totalDuplicates + Head(p1Todo).n
    /\ UNCHANGED <<groupsWide, totalDeleted, totalFailed, deleteProjectCalls,
                   reportedProjects>>
    /\ UNCHANGED <<flagVars, remoteProjects, remoteTargets, dpc, collectVars>>
    /\ UNCHANGED phase2Vars
    /\ UNCHANGED outsideDedup

\* A loop that leaves at the first delete that fails.
DeleteDuplicateOrStop(deleted) ==
    /\ p1Todo' = IF deleted THEN Tail(p1Todo) ELSE <<>>
    /\ totalDeleted' = IF deleted THEN totalDeleted + 1 ELSE totalDeleted
    /\ totalFailed' = IF deleted THEN totalFailed ELSE totalFailed + 1

\* What follows err := api.DeleteProject(...): one of the two counters,
\* and on to the next duplicate either way.
DeleteDuplicate(deleted) ==
    /\ p1Todo' = Tail(p1Todo)
    /\ totalDeleted' = IF deleted THEN totalDeleted + 1 ELSE totalDeleted
    /\ totalFailed' = IF deleted THEN totalFailed ELSE totalFailed + 1

\* A dry run that calls the API all the same.
DryRunDeletes == TRUE

\* if doDelete
DoDeleteBranch == doDelete

\* The body of "for _, d := range dupes" with doDelete set; the group-wide
\* loop marks the duplicate's org as affected first.
DeleteProjectStep ==
    /\ dpc = "phase1"
    /\ p1Todo # <<>>
    /\ Head(p1Todo).kind = "dup"
    /\ DoDeleteBranch
    /\ LET d == Head(p1Todo)
       IN /\ orgsAffected' = IF withinOrg THEN orgsAffected
                             ELSE orgsAffected \cup {d.org}
          /\ \E deleted \in BOOLEAN :
                /\ DeleteDuplicate(deleted)
                /\ deleteProjectCalls' =
                      Append(deleteProjectCalls,
                             [org |-> d.org, id |-> d.project.id,
                              ok |-> deleted])
                /\ remoteProjects' =
                      IF deleted
                      THEN RemoteDelete(remoteProjects, d.org, d.project.id)
                      ELSE remoteProjects
    /\ UNCHANGED <<groupsWide, totalDuplicates, reportedProjects>>
    /\ UNCHANGED <<flagVars, remoteTargets, dpc, collectVars>>
    /\ UNCHANGED phase2Vars
    /\ UNCHANGED outsideDedup

\* The same body in a dry run: it prints the "delete:" line.
ReportProjectStep ==
    /\ dpc = "phase1"
    /\ p1Todo # <<>>
    /\ Head(p1Todo).kind = "dup"
    /\ ~DoDeleteBranch
    /\ LET d == Head(p1Todo)
       IN /\ orgsAffected' = IF withinOrg THEN orgsAffected
                             ELSE orgsAffected \cup {d.org}
          /\ reportedProjects' =
                Append(reportedProjects, [org |-> d.org, id |-> d.project.id])
    /\ p1Todo' = Tail(p1Todo)
    /\ UNCHANGED <<groupsWide, totalDuplicates, totalDeleted, totalFailed,
                   deleteProjectCalls>>
    /\ UNCHANGED <<flagVars, remoteProjects, remoteTargets, dpc, collectVars>>
    /\ UNCHANGED phase2Vars
    /\ UNCHANGED outsideDedup

\* Phase 1 returned; cleanupEmptyTargets is about to range over
\* orgsAffected (with an empty map it is not called, and would do nothing).
StartPhase2 ==
    /\ dpc = "phase1"
    /\ p1Todo = <<>>
    /\ dpc' = "phase2"
    /\ p2Orgs' = orgsAffected
    /\ UNCHANGED <<p2Org, p2Todo, targetsDeleted, targetsFailed,
                   deleteTargetCalls, reportedTargets, p2Skipped>>
    /\ UNCHANGED <<flagVars, remoteProjects, remoteTargets, collectVars>>
    /\ UNCHANGED phase1Vars
    /\ UNCHANGED outsideDedup

\* A cleanup that takes every target for unreferenced.
NoActiveTargets(projects) == {}

\* A cleanup whose dry run takes every target for unreferenced.
ActiveTargetsUnlessDryRun(projects) ==
    IF doDelete
    THEN {projects[i].target :
            i \in {j \in DOMAIN projects : projects[j].target # ""}}
    ELSE {}

\* The keys of the activeTargets map: the TargetID of every re-fetched
\* project that has one.
ActiveTargets(projects) ==
    {projects[i].target :
        i \in {j \in DOMAIN projects : projects[j].target # ""}}

\* A cleanup that does not skip the display names with a single target.
TargetsSharingNameOrNot(tgts) == tgts

\* if len(tgts) < 2 { continue }
TargetsSharingName(tgts) == IF Len(tgts) < 2 THEN <<>> ELSE tgts

\* The targets the two inner loops of cleanupEmptyTargets reach past their
\* "continue"s, in every order the range over targetsByName can give.
RECURSIVE EmptyTargets(_, _, _)
EmptyTargets(targets, activeTargets, names) ==
    IF names = {} THEN {<<>>}
    ELSE UNION {
        LET tgts == SelectSeq(targets, LAMBDA t : t.displayName = name)
            empty == SelectSeq(TargetsSharingName(tgts),
                               LAMBDA t : t.id \notin activeTargets)
        IN {empty \o rest :
               rest \in EmptyTargets(targets, activeTargets, names \ {name})}
        : name \in names}

\* A cleanup that gives up on every remaining org when a fetch fails.
CleanupOrgOrStop(o) ==
    /\ dpc = "phase2"
    /\ p2Todo = <<>>
    /\ o \in p2Orgs
    /\ p2Org' = o
    /\ \E fetchedTargets, fetchedProjects \in BOOLEAN :
        IF fetchedTargets /\ fetchedProjects
        THEN LET targets == remoteTargets[o]
                 projects == remoteProjects[o]
             IN /\ p2Todo' \in
                    EmptyTargets(targets, ActiveTargets(projects),
                                 {targets[i].displayName : i \in DOMAIN targets})
                /\ p2Orgs' = p2Orgs \ {o}
                /\ UNCHANGED p2Skipped
        ELSE /\ p2Todo' = <<>>
             /\ p2Orgs' = {}
             /\ p2Skipped' = p2Skipped \cup {o}
    /\ UNCHANGED <<targetsDeleted, targetsFailed, deleteTargetCalls,
                   reportedTargets>>
    /\ UNCHANGED <<flagVars, remoteProjects, remoteTargets, dpc, collectVars>>
    /\ UNCHANGED phase1Vars
    /\ UNCHANGED outsideDedup

\* One iteration of "for orgID := range orgsAffected" up to the inner
\* loops: either fetch may fail, and then the org is skipped.
CleanupOrg(o) ==
    /\ dpc = "phase2"
    /\ p2Todo = <<>>
    /\ o \in p2Orgs
    /\ p2Orgs' = p2Orgs \ {o}
    /\ p2Org' = o
    /\ \E fetchedTargets, fetchedProjects \in BOOLEAN :
        IF fetchedTargets /\ fetchedProjects
        THEN LET targets == remoteTargets[o]
                 projects == remoteProjects[o]
             IN /\ p2Todo' \in
                    EmptyTargets(targets, ActiveTargets(projects),
                                 {targets[i].displayName : i \in DOMAIN targets})
                /\ UNCHANGED p2Skipped
        ELSE /\ p2Todo' = <<>>
             /\ p2Skipped' = p2Skipped \cup {o}
    /\ UNCHANGED <<targetsDeleted, targetsFailed, deleteTargetCalls,
                   reportedTargets>>
    /\ UNCHANGED <<flagVars, remoteProjects, remoteTargets, dpc, collectVars>>
    /\ UNCHANGED phase1Vars
    /\ UNCHANGED outsideDedup

\* The body of the innermost loop with doDelete set.
DeleteTargetStep ==
    /\ dpc = "phase2"
    /\ p2Todo # <<>>
    /\ DoDeleteBranch
    /\ p2Todo' = Tail(p2Todo)
    /\ \E deleted \in BOOLEAN :
        /\ deleteTargetCalls' =
              Append(deleteTargetCalls,
                     [org |-> p2Org, id |-> Head(p2Todo).id, ok |-> deleted])
        /\ targetsDeleted' = IF deleted THEN targetsDeleted + 1
                             ELSE targetsDeleted
        /\ targetsFailed' = IF deleted THEN targetsFailed
                            ELSE targetsFailed + 1
        /\ remoteTargets' =
              IF deleted
              THEN RemoteDelete(remoteTargets, p2Org, Head(p2Todo).id)
              ELSE remoteTargets
    /\ UNCHANGED <<p2Orgs, p2Org, reportedTargets, p2Skipped>>
    /\ UNCHANGED <<flagVars, remoteProjects, dpc, collectVars>>
    /\ UNCHANGED phase1Vars
    /\ UNCHANGED outsideDedup

\* The same body in a dry run: it prints "empty, would be deleted" and
\* counts the target in targetsDeleted.
ReportTargetStep ==
    /\ dpc = "phase2"
    /\ p2Todo # <<>>
    /\ ~DoDeleteBranch
    /\ p2Todo' = Tail(p2Todo)
    /\ reportedTargets' =
          Append(reportedTargets, [org |-> p2Org, id |-> Head(p2Todo).id])
    /\ targetsDeleted' = targetsDeleted + 1
    /\ UNCHANGED <<p2Orgs, p2Org, targetsFailed, deleteTargetCalls,
                   p2Skipped>>
    /\ UNCHANGED <<flagVars, remoteProjects, remoteTargets, dpc, collectVars>>
    /\ UNCHANGED phase1Vars
    /\ UNCHANGED outsideDedup

\* cleanupEmptyTargets returned; the summary is printed.
Summary ==
    /\ dpc = "phase2"
    /\ p2Orgs = {}
    /\ p2Todo = <<>>
    /\ dpc' = "done"
    /\ UNCHANGED <<flagVars, remoteProjects, remoteTargets, collectVars>>
    /\ UNCHANGED <<phase1Vars, phase2Vars>>
    /\ UNCHANGED outsideDedup

DedupStep ==
    \/ \E o \in DedupOrgs : ReceiveScan(o)
    \/ StartPhase1
    \/ EnterLoop
    \/ DeleteProjectStep
    \/ ReportProjectStep
    \/ StartPhase2
    \/ \E o \in DedupOrgs : CleanupOrg(o)
    \/ DeleteTargetStep
    \/ ReportTargetStep
    \/ Summary

(***************************************************************************)
(* The refresh command's data (refresh.go, internal/targets.go): the       *)
(* conversion of an org's projects to import targets and the aggregation   *)
(* of the orgs' results.  A string the code takes apart or puts together   *)
(* (a project name, a branch, a TargetID) is the sequence of its           *)
(* characters, "" being <<>>; an org ID and an integration ID are single   *)
(* tokens, as the UUIDs they are hold no ':'.                              *)
(***************************************************************************)
MaxImportProjects == 2

RefreshOrgIds == {"org-1", "org-2"}

\* internal.Org: the second org has neither a name nor a slug.
RefreshOrg(o) ==
    IF o = "org-1" THEN [id |-> o, name |-> "One", slug |-> "one"]
                   ELSE [id |-> o, name |-> "", slug |-> ""]

\* The projects of the inputs: every origin kind the conversion tells
\* apart; a name with a manifest path and a parenthetical, a plain name and
\* a name with no '/'; a branch or none, and a GitHub project with a target
\* reference in place of the branch.
ImportOrigins ==
    {"github", "gitlab", "bitbucket-server", "bitbucket-connect-app", "cli"}

ImportNames ==
    {<<"o", "/", "r">>,
     <<"o", "/", "r", "(", "x", ")", ":", "m">>,
     <<"r">>}

\* <<Branch, TargetReference>>
ImportBranches == {<<<<>>, <<>>>>, <<<<"b">>, <<>>>>}

ImportProjects(origins, names, branches) ==
    {[name |-> n, origin |-> og, branch |-> b[1], targetReference |-> b[2]] :
        n \in names, og \in origins, b \in branches}

ImportLists(shapes, maxLen) ==
    UNION {[1..n -> shapes] : n \in 0..maxLen}

\* What ListIntegrations returns: every integration connected, or GitHub
\* not connected and the Bitbucket Server entry with an empty ID.
IntegrationMaps ==
    {[k \in {"github", "gitlab", "bitbucket-cloud", "bitbucket-server"} |->
        CASE k = "github" -> "int-gh"
          [] k = "gitlab" -> "int-gl"
          [] k = "bitbucket-cloud" -> "int-bc"
          [] OTHER -> "int-bs"],
     [k \in {"gitlab", "bitbucket-cloud", "bitbucket-server"} |->
        CASE k = "gitlab" -> "int-gl"
          [] k = "bitbucket-cloud" -> "int-bc"
          [] OTHER -> ""]}

\* var scmOrigins and IsSCMOrigin.
IsSCMOrigin(origin) ==
    origin \in {"github", "github-cloud-app", "github-enterprise",
                "bitbucket-cloud", "bitbucket-connect-app",
                "bitbucket-cloud-app", "azure-repos", "bitbucket-server"}

OriginToIntegrationKey(origin) ==
    IF origin = "bitbucket-connect-app" THEN "bitbucket-cloud" ELSE origin

\* A variant that cuts at the last sep.
SplitN2AtLast(s, sep) ==
    IF \E i \in DOMAIN s : s[i] = sep
    THEN LET i == CHOOSE k \in DOMAIN s :
                    s[k] = sep /\ \A j \in (k + 1)..Len(s) : s[j] # sep
         IN <<SubSeq(s, 1, i - 1), SubSeq(s, i + 1, Len(s))>>
    ELSE <<s>>

\* strings.SplitN(s, sep, 2): s cut at the first sep, or s alone.
SplitN2(s, sep) ==
    IF \E i \in DOMAIN s : s[i] = sep
    THEN LET i == CHOOSE k \in DOMAIN s :
                    s[k] = sep /\ \A j \in 1..(k - 1) : s[j] # sep
         IN <<SubSeq(s, 1, i - 1), SubSeq(s, i + 1, Len(s))>>
    ELSE <<s>>

\* Target{}
NoTarget ==
    [name |-> <<>>, owner |-> <<>>, branch |-> <<>>, projectKey |-> <<>>,
     repoSlug |-> <<>>]

\* A variant that never sets Branch.
ProjectToTargetNoBranch(name, origin, branch) ==
    LET base == SplitN2(name, ":")[1]
        parts == SplitN2(base, "/")
    IN CASE origin \in {"github", "github-cloud-app", "github-enterprise",
                        "bitbucket-cloud", "bitbucket-connect-app",
                        "bitbucket-cloud-app", "azure-repos"} ->
                IF Len(parts) < 2
                THEN [ok |-> FALSE, target |-> NoTarget]
                ELSE [ok |-> TRUE,
                      target |-> [NoTarget EXCEPT
                                    !.owner = parts[1],
                                    !.name = SplitN2(parts[2], "(")[1],
                                    !.branch = <<>>]]
         [] origin = "bitbucket-server" ->
                IF Len(parts) < 2
                THEN [ok |-> FALSE, target |-> NoTarget]
                ELSE [ok |-> TRUE,
                      target |-> [NoTarget EXCEPT
                                    !.projectKey = parts[1],
                                    !.repoSlug = SplitN2(parts[2], "(")[1]]]
         [] OTHER -> [ok |-> FALSE, target |-> NoTarget]

ProjectToTarget(name, origin, branch) ==
    LET base == SplitN2(name, ":")[1]
        parts == SplitN2(base, "/")
    IN CASE origin \in {"github", "github-cloud-app", "github-enterprise",
                        "bitbucket-cloud", "bitbucket-connect-app",
                        "bitbucket-cloud-app", "azure-repos"} ->
                IF Len(parts) < 2
                THEN [ok |-> FALSE, target |-> NoTarget]
                ELSE [ok |-> TRUE,
                      target |-> [NoTarget EXCEPT
                                    !.owner = parts[1],
                                    !.name = SplitN2(parts[2], "(")[1],
                                    !.branch = branch]]
         [] origin = "bitbucket-server" ->
                IF Len(parts) < 2
                THEN [ok |-> FALSE, target |-> NoTarget]
                ELSE [ok |-> TRUE,
                      target |-> [NoTarget EXCEPT
                                    !.projectKey = parts[1],
                                    !.repoSlug = SplitN2(parts[2], "(")[1]]]
         [] OTHER -> [ok |-> FALSE, target |-> NoTarget]

\* strings.Join(parts, sep)
RECURSIVE Join(_, _)
Join(parts, sep) ==
    IF parts = <<>> THEN <<>>
    ELSE IF Len(parts) = 1 THEN parts[1]
    ELSE parts[1] \o <<sep>> \o Join(Tail(parts), sep)

TargetID(orgID, integrationID, t) ==
    LET parts == SelectSeq(<<t.name, t.projectKey, t.repoSlug, t.owner,
                             t.branch>>, LAMBDA f : f # <<>>)
    IN <<orgID, ":", integrationID, ":">> \o Join(parts, ":")

\* A conversion that counts no project as a GitLab project.
NoGitlabOrigin(origin) == FALSE

\* if p.Origin == "gitlab"
GitlabOrigin(origin) == origin = "gitlab"

\* A conversion that forgets the keys it has emitted.
SeenNone(seen, tid) == FALSE

\* if seen[tid] { continue }
Seen(seen, tid) == tid \in seen

\* A conversion that puts the newest target first.
PrependTarget(targets, t) == <<t>> \o targets

\* targets = append(targets, ...)
AppendTarget(targets, t) == Append(targets, t)

\* A variant without the integration-type filter.
NeverFilteredOut(origin, itype) == FALSE

\* integrationType != "" && p.Origin != integrationType &&
\* OriginToIntegrationKey(p.Origin) != integrationType
FilteredOut(origin, itype) ==
    /\ itype # ""
    /\ origin # itype
    /\ OriginToIntegrationKey(origin) # itype

\* One iteration of the loop of projectsToImportTargets: acc holds
\* targets, seen and gitlabSkipped.
ImportOne(acc, p, org, integrations, itype) ==
    LET intKey == OriginToIntegrationKey(p.origin)
        integrationID == IF intKey \in DOMAIN integrations
                         THEN integrations[intKey] ELSE ""
        branch == IF p.branch = <<>> THEN p.targetReference ELSE p.branch
        conv == ProjectToTarget(p.name, p.origin, branch)
        tid == TargetID(org.id, integrationID, conv.target)
    IN IF GitlabOrigin(p.origin)
       THEN [acc EXCEPT !.gitlabSkipped = @ + 1]
       ELSE IF ~IsSCMOrigin(p.origin) THEN acc
       ELSE IF FilteredOut(p.origin, itype) THEN acc
       ELSE IF intKey \notin DOMAIN integrations \/ integrationID = ""
            THEN acc
       ELSE IF ~conv.ok THEN acc
       ELSE IF Seen(acc.seen, tid) THEN acc
       ELSE [acc EXCEPT
                !.seen = @ \cup {tid},
                !.targets = AppendTarget(@, [target |-> conv.target,
                                             orgID |-> org.id,
                                             integrationID |-> integrationID])]

RECURSIVE RangeProjects(_, _, _, _, _)
RangeProjects(acc, projects, org, integrations, itype) ==
    IF projects = <<>> THEN acc
    ELSE RangeProjects(ImportOne(acc, Head(projects), org, integrations,
                                 itype),
                       Tail(projects), org, integrations, itype)

projectsToImportTargets(org, projects, integrations, itype) ==
    LET r == RangeProjects([targets |-> <<>>, seen |-> {},
                            gitlabSkipped |-> 0],
                           projects, org, integrations, itype)
    IN [targets |-> r.targets, gitlabSkipped |-> r.gitlabSkipped]

\* A worker that looks at the error of ListIntegrations only.
IntegrationsErrorOnly(intErr, projErr) ==
    IF intErr THEN "list integrations" ELSE "none"

\* if intErr != nil { ... } if projErr != nil { ... }
SubFetchError(intErr, projErr) ==
    IF intErr THEN "list integrations"
    ELSE IF projErr THEN "fetch projects"
    ELSE "none"

\* reply is what the two fetches returned.  The IDs of one org's
\* integrations are distinct, so the order of `range integrations` does
\* not show in intMeta.
processOrgForRefresh(org, reply, itype) ==
    LET res == [orgID |-> org.id,
                err |-> SubFetchError(reply.intErr, reply.projErr),
                targets |-> <<>>,
                gitlabCount |-> 0,
                orgMeta |-> IF org.name # "" \/ org.slug # ""
                            THEN [k \in {org.id} |->
                                    [name |-> org.name, slug |-> org.slug]]
                            ELSE <<>>,
                intMeta |-> <<>>]
        ints == reply.integrations
        withInt == [res EXCEPT !.intMeta =
                        [id \in {ints[k] : k \in DOMAIN ints} |->
                            CHOOSE k \in DOMAIN ints : ints[k] = id]]
        conv == projectsToImportTargets(org, reply.projects, ints, itype)
    IN IF res.err # "none" THEN res
       ELSE IF Len(reply.projects) = 0 THEN withInt
       ELSE [withInt EXCEPT !.targets = conv.targets,
                            !.gitlabCount = conv.gitlabSkipped]

\* A merge that replaces the targets collected so far.
mergeRefreshResultReplacing(output, res) ==
    IF res.err # "none" THEN output
    ELSE [targets |-> res.targets,
          orgs |-> res.orgMeta @@ output.orgs,
          integrations |-> res.intMeta @@ output.integrations]

mergeRefreshResult(output, res) ==
    IF res.err # "none" THEN output
    ELSE [targets |-> output.targets \o res.targets,
          orgs |-> res.orgMeta @@ output.orgs,
          integrations |-> res.intMeta @@ output.integrations]

\* out as runRefresh makes it.
EmptyOutput == [targets |-> <<>>, orgs |-> <<>>, integrations |-> <<>>]

\* The zero refreshOrgResult.
NoResult ==
    [orgID |-> "", err |-> "none", targets |-> <<>>, gitlabCount |-> 0,
     orgMeta |-> <<>>, intMeta |-> <<>>]

ImportIdle ==
    /\ integrationType = ""
    /\ refreshOrgs = {}
    /\ apiReply = <<>>
    /\ orgPc = <<>>
    /\ orgRes = <<>>
    /\ refreshOut = EmptyOutput

\* The replies the API can give for one org: both fetches succeed, or one
\* or both fail and return nil.
OkReplies(maps, shapes, maxLen) ==
    [intErr : {FALSE}, projErr : {FALSE}, integrations : maps,
     projects : ImportLists(shapes, maxLen)]

FailedReplies(maps) ==
    {[intErr |-> e[1], projErr |-> e[2],
      integrations |-> IF e[1] THEN <<>> ELSE im,
      projects |-> <<>>] :
        e \in {<<TRUE, FALSE>>, <<FALSE, TRUE>>, <<TRUE, TRUE>>},
        im \in maps}

ImportStart(orgs, filters, replies) ==
    /\ integrationType \in filters
    /\ refreshOrgs = orgs
    /\ apiReply \in [orgs -> replies]
    /\ orgPc = [o \in orgs |-> "pending"]
    /\ orgRes = [o \in orgs |-> NoResult]
    /\ refreshOut = EmptyOutput

\* The worker of org o: results <- processOrgForRefresh(ctx, api, o, ...).
\* The workers send in any order.
ProcessOrg(o) ==
    /\ orgPc[o] = "pending"
    /\ orgRes' = [orgRes EXCEPT
                    ![o] = processOrgForRefresh(RefreshOrg(o), apiReply[o],
                                                integrationType)]
    /\ orgPc' = [orgPc EXCEPT ![o] = "processed"]
    /\ UNCHANGED <<integrationType, refreshOrgs, apiReply, refreshOut>>
    /\ UNCHANGED outsideImport

\* One iteration of `for res := range results` in runRefresh.
CollectResult(o) ==
    /\ orgPc[o] = "processed"
    /\ IF orgRes[o].err # "none"
       THEN /\ orgPc' = [orgPc EXCEPT ![o] = "failed"]
            /\ UNCHANGED refreshOut
       ELSE /\ orgPc' = [orgPc EXCEPT ![o] = "merged"]
            /\ refreshOut' = mergeRefreshResult(refreshOut, orgRes[o])
    /\ UNCHANGED <<integrationType, refreshOrgs, apiReply, orgRes>>
    /\ UNCHANGED outsideImport

ImportStep ==
    \/ \E o \in refreshOrgs : ProcessOrg(o)
    \/ \E o \in refreshOrgs : CollectResult(o)


(***************************************************************************)
(* One call of FetchProjects (internal/api.go): the cursor loop and the    *)
(* validation of links.next.  A URL is what url.Parse makes of it: its     *)
(* scheme, its host name (a sequence of characters) and its port; a link   *)
(* that starts with '/' is "relative" and one url.Parse rejects is         *)
(* "unparseable".                                                          *)
(***************************************************************************)
MaxPages == 3

\* a.io, the API host; s.a.io, a sub-domain of it; sa.io, another host.
ApiHostName == <<"a", ".", "i", "o">>

SubdomainName == <<"s", ".">> \o ApiHostName

OtherHostName == <<"s">> \o ApiHostName

\* "" as a URL: no next link, or the loop variable at the end.
NoURL == [form |-> "none", scheme |-> "", host |-> <<>>, port |-> ""]

\* GetSnykAPIBaseURL(): the API host, with or without a port.
ApiBases ==
    {[form |-> "absolute", scheme |-> "https", host |-> ApiHostName,
      port |-> pt] : pt \in {"", "8443"}}

\* The values links.next can have in a page.
NextLinks ==
    {NoURL,
     [form |-> "relative", scheme |-> "", host |-> <<>>, port |-> ""],
     [form |-> "unparseable", scheme |-> "", host |-> <<>>, port |-> ""],
     [form |-> "absolute", scheme |-> "https", host |-> ApiHostName,
      port |-> "8443"]}
    \cup {[form |-> "absolute", scheme |-> sc, host |-> h, port |-> ""] :
            sc \in {"https", "http"},
            h \in {ApiHostName, SubdomainName, OtherHostName}}

\* url.URL.Host: the host name and, if there is one, ':' and the port.
HostOf(u) == IF u.port = "" THEN u.host ELSE u.host \o <<":", u.port>>

\* strings.HasSuffix
HasSuffix(s, suffix) ==
    /\ Len(suffix) <= Len(s)
    /\ SubSeq(s, Len(s) - Len(suffix) + 1, Len(s)) = suffix

\* A validation that accepts every https link.
isAllowedNextURLAnyHost(next, allowedHost) ==
    \/ next.form = "relative"
    \/ next.form = "absolute" /\ next.scheme = "https"

\* u.Hostname() is the host name without the port.
isAllowedNextURL(next, allowedHost) ==
    IF next = NoURL THEN FALSE
    ELSE IF next.form = "relative" THEN TRUE
    ELSE IF next.form = "unparseable" THEN FALSE
    ELSE IF next.scheme # "https" THEN FALSE
    ELSE \/ next.host = allowedHost
         \/ HasSuffix(next.host, <<".">> \o allowedHost)

\* What FetchProjects has not returned yet.
NoFetchReturn == [projects |-> <<>>, err |-> "pending"]

FetchIdle ==
    /\ fetchPc = "idle"
    /\ apiBase = NoURL
    /\ nextURL = NoURL
    /\ fetchGot = <<>>
    /\ fetchRet = NoFetchReturn
    /\ requested = <<>>
    /\ lastLink = NoURL
    /\ lastStatus = 0
    /\ served = <<>>

\* nextURL := firstURL
FetchStart ==
    /\ fetchPc = "loop"
    /\ apiBase \in ApiBases
    /\ nextURL = apiBase
    /\ fetchGot = <<>>
    /\ fetchRet = NoFetchReturn
    /\ requested = <<>>
    /\ lastLink = NoURL
    /\ lastStatus = 0
    /\ served = <<>>

\* An iteration whose request fails in DoWithRetry, is answered with a
\* status other than 200 and 404, or with a body that does not decode:
\* return nil, err.
FetchFails ==
    /\ fetchPc = "loop"
    /\ requested' = Append(requested, nextURL)
    /\ \E e \in {"fetch projects", "status", "decode projects"} :
        /\ fetchRet' = [projects |-> <<>>, err |-> e]
        /\ lastStatus' = CASE e = "fetch projects" -> 0
                            [] e = "status" -> 403
                            [] e = "decode projects" -> 200
    /\ fetchPc' = "returned"
    /\ UNCHANGED <<apiBase, nextURL, fetchGot, lastLink, served>>
    /\ UNCHANGED outsideFetch

\* A variant that treats a 404 like every other status that is not 200.
FetchNotFoundFails ==
    /\ fetchPc = "loop"
    /\ requested' = Append(requested, nextURL)
    /\ fetchRet' = [projects |-> <<>>, err |-> "status"]
    /\ lastStatus' = 404
    /\ fetchPc' = "returned"
    /\ UNCHANGED <<apiBase, nextURL, fetchGot, lastLink, served>>
    /\ UNCHANGED outsideFetch

\* A variant that answers a 404 with no projects at all.
FetchNotFoundDropsPages ==
    /\ fetchPc = "loop"
    /\ requested' = Append(requested, nextURL)
    /\ fetchRet' = [projects |-> <<>>, err |-> "none"]
    /\ lastStatus' = 404
    /\ fetchPc' = "returned"
    /\ UNCHANGED <<apiBase, nextURL, fetchGot, lastLink, served>>
    /\ UNCHANGED outsideFetch

\* An iteration whose request is answered with 404: return projects, nil.
FetchNotFound ==
    /\ fetchPc = "loop"
    /\ requested' = Append(requested, nextURL)
    /\ fetchRet' = [projects |-> fetchGot, err |-> "none"]
    /\ lastStatus' = 404
    /\ fetchPc' = "returned"
    /\ UNCHANGED <<apiBase, nextURL, fetchGot, lastLink, served>>
    /\ UNCHANGED outsideFetch

\* A variant that keeps the projects of the latest page only.
FetchPageKeepsLatest ==
    /\ fetchPc = "loop"
    /\ requested' = Append(requested, nextURL)
    /\ \E items \in {<<>>, <<Len(requested) + 1>>}, link \in NextLinks :
        LET allowed == isAllowedNextURL(link, HostOf(apiBase))
            next == IF ~allowed THEN NoURL
                    ELSE IF link.form = "relative" THEN apiBase
                    ELSE link
        IN /\ Len(requested) + 1 < MaxPages \/ ~allowed
           /\ fetchGot' = items
           /\ lastLink' = link
           /\ lastStatus' = 200
           /\ served' = Append(served, [items |-> items, link |-> link])
           /\ nextURL' = next
           /\ IF next = NoURL
              THEN /\ fetchPc' = "returned"
                   /\ fetchRet' = [projects |-> items, err |-> "none"]
              ELSE UNCHANGED <<fetchPc, fetchRet>>
    /\ UNCHANGED apiBase
    /\ UNCHANGED outsideFetch

\* An iteration whose request is answered with 200 and a page: its
\* projects are appended, and links.next is followed if it is allowed.  A
\* relative link is appended to the base URL.  The page that is number
\* MaxPages of the call carries no link the loop follows.
FetchPage ==
    /\ fetchPc = "loop"
    /\ requested' = Append(requested, nextURL)
    /\ \E items \in {<<>>, <<Len(requested) + 1>>}, link \in NextLinks :
        LET allowed == isAllowedNextURL(link, HostOf(apiBase))
            next == IF ~allowed THEN NoURL
                    ELSE IF link.form = "relative" THEN apiBase
                    ELSE link
        IN /\ Len(requested) + 1 < MaxPages \/ ~allowed
           /\ fetchGot' = fetchGot \o items
           /\ lastLink' = link
           /\ lastStatus' = 200
           /\ served' = Append(served, [items |-> items, link |-> link])
           /\ nextURL' = next
           /\ IF next = NoURL
              THEN /\ fetchPc' = "returned"
                   /\ fetchRet' = [projects |-> fetchGot \o items,
                                   err |-> "none"]
              ELSE UNCHANGED <<fetchPc, fetchRet>>
    /\ UNCHANGED apiBase
    /\ UNCHANGED outsideFetch

FetchStep ==
    \/ FetchFails
    \/ FetchNotFound
    \/ FetchPage

(***************************************************************************)
(* FetchOrgs (internal/api.go): the numbered pages of a group's orgs.  An  *)
(* org of a page is written <<p, i>>: item i of the page requested as p.   *)
(***************************************************************************)
MaxOrgPages == 3
perPage == 100

\* What the server may put on one page: it is asked for perPage orgs.
PageSizes == 0 .. perPage + 1

PageItems(p, n) == [i \in 1 .. n |-> <<p, i>>]

NoOrgsReturn == [orgs |-> <<>>, err |-> "pending"]

OrgsIdle ==
    /\ orgsPc = "idle"
    /\ page = 0
    /\ allOrgs = <<>>
    /\ orgsRet = NoOrgsReturn
    /\ pagesRequested = <<>>
    /\ orgPages = <<>>

\* var allOrgs []Org; page := 1
FetchOrgsStart ==
    /\ orgsPc = "loop"
    /\ page = 1
    /\ allOrgs = <<>>
    /\ orgsRet = NoOrgsReturn
    /\ pagesRequested = <<>>
    /\ orgPages = <<>>

\* An iteration whose request fails in DoWithRetry, is answered with a
\* status other than 200, or with a body that does not decode:
\* return nil, err.
OrgsPageFails ==
    /\ orgsPc = "loop"
    /\ pagesRequested' = Append(pagesRequested, page)
    /\ \E e \in {"fetch orgs page", "status", "decode orgs response"} :
        orgsRet' = [orgs |-> <<>>, err |-> e]
    /\ orgsPc' = "returned"
    /\ UNCHANGED <<page, allOrgs, orgPages>>
    /\ UNCHANGED outsideOrgs

\* A variant that goes on until a page is empty.
OrgsPageUntilEmpty ==
    /\ orgsPc = "loop"
    /\ pagesRequested' = Append(pagesRequested, page)
    /\ \E n \in PageSizes :
        /\ page < MaxOrgPages \/ n = 0
        /\ allOrgs' = allOrgs \o PageItems(page, n)
        /\ orgPages' = Append(orgPages, PageItems(page, n))
        /\ IF n = 0
           THEN /\ orgsPc' = "returned"
                /\ orgsRet' = [orgs |-> allOrgs \o PageItems(page, n),
                               err |-> "none"]
                /\ UNCHANGED page
           ELSE /\ page' = page + 1
                /\ UNCHANGED <<orgsPc, orgsRet>>
    /\ UNCHANGED outsideOrgs

\* An iteration whose request is answered with 200 and a page of n orgs:
\* they are appended; fewer than perPage ends the loop, otherwise page++.
\* The page that is number MaxOrgPages of the call is a short one.
OrgsPage ==
    /\ orgsPc = "loop"
    /\ pagesRequested' = Append(pagesRequested, page)
    /\ \E n \in PageSizes :
        /\ page < MaxOrgPages \/ n < perPage
        /\ allOrgs' = allOrgs \o PageItems(page, n)
        /\ orgPages' = Append(orgPages, PageItems(page, n))
        /\ IF n < perPage
           THEN /\ orgsPc' = "returned"
                /\ orgsRet' = [orgs |-> allOrgs \o PageItems(page, n),
                               err |-> "none"]
                /\ UNCHANGED page
           ELSE /\ page' = page + 1
                /\ UNCHANGED <<orgsPc, orgsRet>>
    /\ UNCHANGED outsideOrgs

OrgsStep ==
    \/ OrgsPageFails
    \/ OrgsPage

(***************************************************************************)
(* Single calls of two helpers: ProjectToTarget (internal/targets.go) on   *)
(* any short display name, and calculateBackoff (internal/client.go) on    *)
(* any attempt number.                                                     *)
(***************************************************************************)
MaxNameLen == 3
MaxAttempt == 6

\* The characters ProjectToTarget looks for, and two others.
NameChars == {"o", "r", "/", ":", "("}

CallNames ==
    UNION {[1 .. n -> NameChars] : n \in 0 .. MaxNameLen} \cup ImportNames

CallOrigins ==
    {"github", "bitbucket-connect-app", "azure-repos", "bitbucket-server",
     "gitlab", "cli"}

CallBranches == {<<>>, <<"b">>}

\* Retry configurations: the default and others with a whole factor.
BackoffConfigs ==
    [MaxRetries : {5}, InitialBackoff : {1, 2, 40}, MaxBackoff : {30},
     BackoffFactor : {1, 2, 3}]

CallStart ==
    /\ fnPc = "called"
    /\ fnName \in {"ProjectToTarget", "calculateBackoff"}
    /\ fnList \in IF fnName = "ProjectToTarget"
                  THEN [name : CallNames, origin : CallOrigins,
                        branch : CallBranches]
                  ELSE [attempt : 0 .. MaxAttempt, cfg : BackoffConfigs]
    /\ fnConsiderOrigin = FALSE
    /\ fnOut = <<>>

ReturnTarget ==
    /\ fnPc = "called"
    /\ fnName = "ProjectToTarget"
    /\ fnOut' = ProjectToTarget(fnList.name, fnList.origin, fnList.branch)
    /\ fnPc' = "returned"
    /\ UNCHANGED <<fnName, fnList, fnConsiderOrigin>>
    /\ UNCHANGED outsideGroup

ReturnBackoff ==
    /\ fnPc = "called"
    /\ fnName = "calculateBackoff"
    /\ fnOut' = calculateBackoff(fnList.attempt, fnList.cfg)
    /\ fnPc' = "returned"
    /\ UNCHANGED <<fnName, fnList, fnConsiderOrigin>>
    /\ UNCHANGED outsideGroup

CallStep == ReturnTarget \/ ReturnBackoff

(***************************************************************************)
(* The specifications.                                                     *)
(***************************************************************************)
SchedInit ==
    SchedStart /\ RetryIdle /\ GroupIdle /\ DedupIdle /\ ImportIdle /\ FetchIdle
    /\ OrgsIdle

SchedNext == SchedStep

SchedSpec == SchedInit /\ [][SchedNext]_vars

\* The Go scheduler runs every runnable goroutine, and every fetch returns
\* (the HTTP client has a timeout and DoWithRetry a bounded number of tries).
SchedFairness ==
    /\ WF_vars(Spawn)
    /\ WF_vars(StartCloser)
    /\ WF_vars(CloseResults)
    /\ WF_vars(Receive)
    /\ WF_vars(Finish)
    /\ \A o \in OrgIds :
        /\ WF_vars(Acquire(o))
        /\ WF_vars(StartFetch(o))
        /\ WF_vars(IntegrationsReturn(o))
        /\ WF_vars(ProjectsReturn(o))
        /\ WF_vars(SendResult(o))
        /\ WF_vars(Release(o))
        /\ WF_vars(WgDone(o))

FairSchedSpec == SchedSpec /\ SchedFairness

\* The worker pool with a context that can be cancelled during the run.
CancelSchedNext == SchedStep \/ CancelRun

CancelSchedSpec == SchedInit /\ [][CancelSchedNext]_vars

(***************************************************************************)
(* Claims about the worker pool.                                           *)
(***************************************************************************)

\* C1: at every moment the number of orgs whose processing has started and
\* not finished is at most the concurrency limit; a worker holds a slot
\* whenever one of its fetches runs, it gives the slot back after a success
\* and after a failure alike, and when the run is over every slot is free.
C1_BoundedPool ==
    /\ Cardinality(Holding) <= concurrency
    /\ sem = Cardinality(Holding)
    /\ \A o \in OrgIds :
        (intSt[o] = "running" \/ projSt[o] = "running") => o \in Holding
    /\ \A o \in OrgIds : wpc[o] \in {"released", "done"} => o \notin Holding
    /\ mainPc = "done" => sem = 0

\* C1 witness: the pool is full, one worker holds a slot with a failed
\* fetch, and another worker is blocked on the semaphore.
C1_Witness ==
    \E o, p \in OrgIds :
        /\ wpc[o] = "start"
        /\ p \in Holding
        /\ ResultErr(p) # "none"
        /\ concurrency > 0
        /\ sem = concurrency

\* The state the run ends in: every org's result was received exactly once.
AllDelivered ==
    /\ mainPc = "done"
    /\ processedOrgs + failedOrgs = orgCount
    /\ \A o \in OrgIds : delivered[o] = (IF o \in RunOrgs THEN 1 ELSE 0)

\* C2: with a positive concurrency limit the run ends, and it ends with
\* exactly one result per org received, failed fetches included, so that
\* processed + failed = len(orgs); no org's result is received twice, and
\* the results channel is closed only after every worker has sent.
C2_AllResultsDelivered ==
    /\ [](\A o \in OrgIds : delivered[o] <= 1)
    /\ [](closed => \A o \in RunOrgs : wpc[o] = "done")
    /\ [](processedOrgs + failedOrgs <= orgCount)
    /\ (concurrency > 0 => <>AllDelivered)

\* C2 witness: a run of several orgs with fewer slots than orgs has ended
\* with one org failed and another processed.
C2_Witness ==
    /\ AllDelivered
    /\ orgCount > concurrency
    /\ failedOrgs > 0
    /\ processedOrgs > 0


(***************************************************************************)
(* The transport's specifications: one call with every outcome (RetrySpec) *)
(* and two concurrent first calls, as the two fetches of a single-org run  *)
(* make them (PaceSpec).                                                   *)
(***************************************************************************)
RetryInit ==
    /\ SchedIdle /\ RetryStart({1}, AllOutcomes) /\ GroupIdle /\ DedupIdle
    /\ ImportIdle /\ FetchIdle
    /\ OrgsIdle

PaceInit ==
    /\ SchedIdle /\ RetryStart({1, 2}, FewOutcomes) /\ GroupIdle /\ DedupIdle
    /\ ImportIdle /\ FetchIdle
    /\ OrgsIdle

RetryNext == RetryStep

RetrySpec == RetryInit /\ [][RetryNext]_vars

PaceSpec == PaceInit /\ [][RetryNext]_vars

(***************************************************************************)
(* Claims about the transport.                                             *)
(***************************************************************************)
InLoop(c) == rpc[c] \in {"check", "wait", "parked", "do", "sleep"}

RetryableOutcome(outcome) ==
    \/ outcome.kind \in {"transport", "read"}
    \/ /\ outcome.kind = "status"
       /\ outcome.code \in {408, 429, 500, 502, 503, 504, 530}

C4_AuthFailsFast ==
    \A c \in callers :
        /\ (lastOutcome[c].kind = "status" /\ lastOutcome[c].code = 401) =>
              /\ rpc[c] = "returned"
              /\ ret[c] = Returned(401, "authentication failed (401)",
                                   NoErr, NoResp)
              /\ dispatched[c] = attempt[c] + 1
        /\ ret[c].err = "authentication failed (401)" =>
              /\ lastOutcome[c].kind = "status"
              /\ lastOutcome[c].code = 401

\* C4 witness: a 401 arrived on a retry, with budget left, and the call
\* returned the authentication error.
C4_Witness ==
    \E c \in callers :
        /\ ret[c].err = "authentication failed (401)"
        /\ attempt[c] > 0
        /\ attempt[c] < DefaultRetryConfig.MaxRetries

\* C5: a retries-exhausted error wraps the outcome of the final attempt:
\* its transport or read error if it failed so, its status if it returned a
\* retryable status, whatever the earlier attempts produced.
C5_ExhaustedWrapsFinalAttempt ==
    \A c \in callers :
        (rpc[c] = "returned" /\ ret[c].err = "max retries exceeded") =>
            IF lastOutcome[c].kind = "status"
            THEN /\ ret[c].wrapsStatus = lastOutcome[c].code
                 /\ ret[c].wrapsErr = NoErr
            ELSE /\ ret[c].wrapsErr =
                        [kind |-> lastOutcome[c].kind,
                         attempt |-> DefaultRetryConfig.MaxRetries]
                 /\ ret[c].wrapsStatus = NoResp

RECURSIVE SumOver(_, _)
SumOver(f, S) ==
    IF S = {} THEN 0
    ELSE LET x == CHOOSE y \in S : TRUE IN f[x] + SumOver(f, S \ {x})

\* C6: every attempt of every caller, first tries and retries alike, follows
\* a successful limiter wait of its own, so the attempts dispatched by all
\* callers together never outnumber the ticks consumed.
C6_OneDispatchPerTick ==
    /\ \A c \in callers :
        /\ dispatched[c] <= waits[c]
        /\ waits[c] <= dispatched[c] + 1
        /\ (rpc[c] = "do") <=> (waits[c] = dispatched[c] + 1)
    /\ ticksConsumed = SumOver(waits, CallerIds)
    /\ SumOver(dispatched, CallerIds) <= ticksConsumed

\* C6 witness: two concurrent callers have each dispatched a first try and
\* a retry.
C6_Witness ==
    /\ callers = {1, 2}
    /\ \A c \in callers : dispatched[c] >= 2

(***************************************************************************)
(* The grouping functions' specification: one call with any arguments.     *)
(***************************************************************************)
GroupInit ==
    SchedIdle /\ RetryIdle /\ GroupStart /\ DedupIdle /\ ImportIdle /\ FetchIdle
    /\ OrgsIdle

GroupNext == GroupStep

GroupSpec == GroupInit /\ [][GroupNext]_vars

(***************************************************************************)
(* Claims about the grouping functions.                                    *)
(***************************************************************************)
Members(g) ==
    IF fnName = "findDuplicateGroupsGroupWide" THEN g.items ELSE g.projects

\* C7: in every group either grouping function returns, no member's
\* Created is less than the Created of the first member (the survivor),
\* and no member's Created is less than that of a member before it: the
\* members are in ascending order of creation time, the oldest first.
C7_SurvivorIsOldest ==
    fnPc = "returned" =>
        \A n \in DOMAIN fnOut :
            LET m == Members(fnOut[n])
            IN /\ \A i \in DOMAIN m : ~StringLess(m[i].created, m[1].created)
               /\ \A i, j \in DOMAIN m :
                    i < j => ~StringLess(m[j].created, m[i].created)

\* A group of three whose only oldest member came last in the argument.
C7_Witness ==
    /\ fnPc = "returned"
    /\ \E n \in DOMAIN fnOut :
        LET m == Members(fnOut[n])
        IN /\ Len(m) = 3
           /\ m[1].id = 3
           /\ StringLess(m[1].created, m[2].created)
           /\ StringLess(m[1].created, m[3].created)

\* C8: members of a group with the same Created keep the order they had
\* in the argument, so of the members tied for the earliest Created the
\* survivor is the one that came first in the argument.
C8_TiesKeepInputOrder ==
    fnPc = "returned" =>
        \A n \in DOMAIN fnOut :
            LET m == Members(fnOut[n])
            IN \A i, j \in DOMAIN m :
                (i < j /\ m[i].created = m[j].created) => m[i].id < m[j].id

(***************************************************************************)
(* The dedup command's specification: one run over two organizations.      *)
(***************************************************************************)
DedupInit ==
    SchedIdle /\ RetryIdle /\ GroupIdle /\ DedupStart /\ ImportIdle /\ FetchIdle
    /\ OrgsIdle

DedupNext == DedupStep

DedupSpec == DedupInit /\ [][DedupNext]_vars

(***************************************************************************)
(* The conversion's specifications: one org with any projects, filter and  *)
(* integrations (ConvertSpec), and two orgs whose fetches succeed or fail  *)
(* (RefreshSpec).                                                          *)
(***************************************************************************)
ConvertInit ==
    /\ SchedIdle /\ RetryIdle /\ GroupIdle /\ DedupIdle /\ FetchIdle
    /\ OrgsIdle
    /\ ImportStart({"org-1"},
                   {"", "gitlab", "bitbucket-cloud", "bitbucket-connect-app"},
                   OkReplies(IntegrationMaps,
                             ImportProjects(ImportOrigins, ImportNames,
                                            ImportBranches)
                             \cup ImportProjects({"github"},
                                                 {<<"o", "/", "r">>},
                                                 {<<<<>>, <<"b">>>>}),
                             MaxImportProjects))

RefreshInit ==
    /\ SchedIdle /\ RetryIdle /\ GroupIdle /\ DedupIdle /\ FetchIdle
    /\ OrgsIdle
    /\ ImportStart(RefreshOrgIds, {""},
                   OkReplies(IntegrationMaps,
                             ImportProjects({"github", "gitlab"},
                                            {<<"o", "/", "r">>},
                                            ImportBranches),
                             MaxImportProjects)
                   \cup FailedReplies(IntegrationMaps))

ConvertSpec == ConvertInit /\ [][ImportStep]_vars

RefreshSpec == RefreshInit /\ [][ImportStep]_vars

(***************************************************************************)
(* Claims about the dedup command.                                         *)
(***************************************************************************)
\* The deletion candidates: every member but the first of every group.
Candidates ==
    IF withinOrg
    THEN UNION {UNION {{[org |-> orgsWithDuplicates[r].orgID,
                         id |-> orgsWithDuplicates[r].groups[g].projects[i].id] :
                          i \in 2..Len(orgsWithDuplicates[r].groups[g].projects)} :
                       g \in DOMAIN orgsWithDuplicates[r].groups} :
                r \in DOMAIN orgsWithDuplicates}
    ELSE UNION {{[org |-> groupsWide[g].items[i].org,
                  id |-> groupsWide[g].items[i].id] :
                    i \in 2..Len(groupsWide[g].items)} :
                g \in DOMAIN groupsWide}

\* The lists within which duplicates were looked for.
ScannedLists ==
    IF withinOrg
    THEN {remoteProjects[orgsWithDuplicates[r].orgID] :
            r \in DOMAIN orgsWithDuplicates}
    ELSE {allProjectsInOrg}

\* The projects of the scanned lists beyond one per grouping key.
SurplusProjects ==
    SumOver([l \in ScannedLists |->
                Len(l) - Cardinality({duplicateGroupKey(l[i], considerOrigin) :
                                        i \in DOMAIN l})],
            ScannedLists)

Phase1Over == dpc \in {"phase2", "done"}

\* C9: in a dry run, within one org or group-wide, no DeleteProject and no
\* DeleteTarget call is ever made in either phase and the remote projects
\* and targets never change; totalDeleted and totalFailed stay 0, while
\* after Phase 1 totalDuplicates is the number of deletion candidates, one
\* per project beyond the first of its key, each reported once.
C9_DryRunCallsNothing ==
    /\ [](~doDelete =>
            /\ deleteProjectCalls = <<>>
            /\ deleteTargetCalls = <<>>
            /\ totalDeleted = 0
            /\ totalFailed = 0
            /\ targetsFailed = 0
            /\ remoteTargets = InitialTargets
            /\ Phase1Over =>
                /\ totalDuplicates = Cardinality(Candidates)
                /\ totalDuplicates = SurplusProjects
                /\ Len(reportedProjects) = totalDuplicates
                /\ {reportedProjects[i] : i \in DOMAIN reportedProjects}
                      = Candidates)
    /\ [][~doDelete => UNCHANGED <<remoteProjects, remoteTargets>>]_vars

\* A group-wide dry run that is over and reported duplicates in both orgs
\* and an empty target.
C9_Witness ==
    /\ ~doDelete
    /\ ~withinOrg
    /\ dpc = "done"
    /\ totalDuplicates >= 2
    /\ orgsAffected = DedupOrgs
    /\ reportedTargets # <<>>

\* C10: with --delete, every DeleteProject call is for a deletion candidate
\* and no two calls are for the same project; once Phase 1 is over every
\* candidate of every group has had its call, whether or not earlier calls
\* failed, and totalDeleted + totalFailed = totalDuplicates.
C10_OneDeletePerCandidate ==
    doDelete =>
        /\ \A i, j \in DOMAIN deleteProjectCalls :
            i # j => deleteProjectCalls[i].id # deleteProjectCalls[j].id
        /\ {[org |-> deleteProjectCalls[i].org, id |-> deleteProjectCalls[i].id] :
                i \in DOMAIN deleteProjectCalls} \subseteq Candidates
        /\ Len(deleteProjectCalls) = totalDeleted + totalFailed
        /\ Phase1Over =>
            /\ Len(deleteProjectCalls) = Cardinality(Candidates)
            /\ totalDeleted + totalFailed = totalDuplicates
            /\ totalFailed = Cardinality({i \in DOMAIN deleteProjectCalls :
                                            ~deleteProjectCalls[i].ok})

\* A run with --delete over a group in each org: the delete in the first
\* group failed and the delete in the second group was still made.
C10_Witness ==
    /\ doDelete
    /\ withinOrg
    /\ dpc = "done"
    /\ Len(orgsWithDuplicates) = 2
    /\ Len(deleteProjectCalls) = 2
    /\ ~deleteProjectCalls[1].ok
    /\ deleteProjectCalls[2].ok

\* The project records of the deletion candidates.
CandidateProjects ==
    IF withinOrg
    THEN UNION {UNION {{orgsWithDuplicates[r].groups[g].projects[i] :
                          i \in 2..Len(orgsWithDuplicates[r].groups[g].projects)} :
                       g \in DOMAIN orgsWithDuplicates[r].groups} :
                r \in DOMAIN orgsWithDuplicates}
    ELSE UNION {{groupsWide[g].items[i] : i \in 2..Len(groupsWide[g].items)} :
                g \in DOMAIN groupsWide}

\* Whether a project org o still has on the remote API references target t.
Referenced(o, t) ==
    \E j \in DOMAIN remoteProjects[o] : remoteProjects[o][j].target = t

Handled(o) ==
    {deleteTargetCalls[i].id :
        i \in {j \in DOMAIN deleteTargetCalls : deleteTargetCalls[j].org = o}}
    \cup {reportedTargets[i].id :
        i \in {j \in DOMAIN reportedTargets : reportedTargets[j].org = o}}
    \cup (IF o = p2Org THEN {p2Todo[i].id : i \in DOMAIN p2Todo} ELSE {})

\* The targets of org o, as they were when Phase 2 began, that share their
\* display name with another target of o and that no project of o
\* references.
Orphaned(o) ==
    {InitialTargets[o][i].id :
        i \in {j \in DOMAIN InitialTargets[o] :
                /\ \E k \in DOMAIN InitialTargets[o] :
                    /\ k # j
                    /\ InitialTargets[o][k].displayName
                          = InitialTargets[o][j].displayName
                /\ ~Referenced(o, InitialTargets[o][j].id)}}

Processed == {o \in refreshOrgs : orgPc[o] # "pending"}

\* The orgs whose result the collector has received.
Collected == {o \in refreshOrgs : orgPc[o] \in {"merged", "failed"}}

EntryKey(e) == TargetID(e.orgID, e.integrationID, e.target)

\* C13: the Targets sequence of the export output never holds two entries
\* with the same deduplication key TargetID(org, integration, target),
\* whatever the projects of the orgs and whichever results have been
\* aggregated.
C13_NoTwoEntriesShareKey ==
    \A i \in DOMAIN refreshOut.targets :
        \A j \in DOMAIN refreshOut.targets :
            i # j => EntryKey(refreshOut.targets[i])
                        # EntryKey(refreshOut.targets[j])

\* Both orgs are aggregated, one of them had two projects of one key, and
\* the other contributed the same target under its own key.
C13_Witness ==
    /\ Collected = RefreshOrgIds
    /\ \E o \in RefreshOrgIds :
        /\ Len(apiReply[o].projects) = 2
        /\ apiReply[o].projects[1] = apiReply[o].projects[2]
        /\ Len(orgRes[o].targets) = 1
        /\ \E i \in DOMAIN refreshOut.targets :
            /\ refreshOut.targets[i].orgID # o
            /\ refreshOut.targets[i].target = orgRes[o].targets[1].target
    /\ Len(refreshOut.targets) >= 3

\* The integration ID the conversion looks up for project p, "" for none.
IntegrationOf(p, o) ==
    LET ints == apiReply[o].integrations
        k == OriginToIntegrationKey(p.origin)
    IN IF k \in DOMAIN ints THEN ints[k] ELSE ""

\* The target project p stands for.
TargetOf(p) ==
    ProjectToTarget(p.name, p.origin,
                    IF p.branch = <<>> THEN p.targetReference ELSE p.branch)

\* Whether project p of org o is one the conversion turns into a target.
Convertible(p, o) ==
    /\ p.origin # "gitlab"
    /\ IsSCMOrigin(p.origin)
    /\ \/ integrationType = ""
       \/ p.origin = integrationType
       \/ OriginToIntegrationKey(p.origin) = integrationType
    /\ IntegrationOf(p, o) # ""
    /\ TargetOf(p).ok

EntryOf(p, o) ==
    [target |-> TargetOf(p).target, orgID |-> o,
     integrationID |-> IntegrationOf(p, o)]

\* The positions of the first convertible project of each key.
Firsts(o) ==
    LET ps == apiReply[o].projects
    IN {i \in DOMAIN ps :
            /\ Convertible(ps[i], o)
            /\ \A j \in 1..(i - 1) :
                Convertible(ps[j], o) =>
                    EntryKey(EntryOf(ps[j], o)) # EntryKey(EntryOf(ps[i], o))}

\* C14: within one org, the import targets projectsToImportTargets returns
\* are, in input order, the conversions of the first project of each
\* deduplication key; a later project of a key already seen adds nothing
\* and changes nothing.
C14_FirstOccurrenceWins ==
    \A o \in Processed :
        LET ps == apiReply[o].projects
            idx == SelectSeq([i \in 1..Len(ps) |-> i],
                             LAMBDA i : i \in Firsts(o))
        IN orgRes[o].targets = [n \in DOMAIN idx |-> EntryOf(ps[idx[n]], o)]

\* Two different projects of one key: the target is the one of the first,
\* and it carries the first project's integration.
C14_Witness ==
    /\ Processed = {"org-1"}
    /\ LET ps == apiReply["org-1"].projects
       IN /\ Len(ps) = 2
          /\ ps[1].name # ps[2].name
          /\ ps[1].branch # ps[2].branch
          /\ Convertible(ps[1], "org-1")
          /\ Convertible(ps[2], "org-1")
          /\ Firsts("org-1") = {1}
          /\ orgRes["org-1"].targets = <<EntryOf(ps[1], "org-1")>>

\* C15: a project whose origin is gitlab never yields an import target,
\* whatever its other fields, the integrations and the filter: the targets
\* are those of the input without its gitlab projects and none carries the
\* GitLab integration; and the org's GitLab-skip counter is the number of
\* gitlab projects of the input.
C15_GitlabNeverConverted ==
    \A o \in Processed :
        LET ps == apiReply[o].projects
            others == SelectSeq(ps, LAMBDA p : p.origin # "gitlab")
        IN /\ orgRes[o].targets =
                projectsToImportTargets(RefreshOrg(o), others,
                                        apiReply[o].integrations,
                                        integrationType).targets
           /\ \A i \in DOMAIN orgRes[o].targets :
                orgRes[o].targets[i].integrationID # "int-gl"
           /\ orgRes[o].gitlabCount =
                Cardinality({i \in DOMAIN ps : ps[i].origin = "gitlab"})

\* GitLab is connected and is the filter; two gitlab projects with a name
\* the conversion can parse are counted and give no target.
C15_Witness ==
    /\ Processed = {"org-1"}
    /\ integrationType = "gitlab"
    /\ "gitlab" \in DOMAIN apiReply["org-1"].integrations
    /\ LET ps == apiReply["org-1"].projects
       IN /\ Len(ps) = 2
          /\ \A i \in DOMAIN ps :
                ps[i].origin = "gitlab" /\ ps[i].name = <<"o", "/", "r">>
    /\ orgRes["org-1"].gitlabCount = 2
    /\ orgRes["org-1"].targets = <<>>

\* The entries of the output that belong to org o, in their order.
EntriesOf(o) == SelectSeq(refreshOut.targets, LAMBDA e : e.orgID = o)

\* The integration IDs the API reported for org o.
IntegrationIds(o) ==
    {apiReply[o].integrations[k] : k \in DOMAIN apiReply[o].integrations}

\* C17: an org's result is marked failed exactly when its integrations
\* fetch or its projects fetch returned an error; a failed result adds no
\* target, no org metadata and no integration metadata to the output,
\* and the orgs that did not fail contribute what their own data gives.
C17_FailedOrgAddsNothing ==
    /\ \A o \in Processed :
        orgRes[o].err # "none" <=> apiReply[o].intErr \/ apiReply[o].projErr
    /\ \A o \in Collected :
        orgPc[o] = "failed" <=> apiReply[o].intErr \/ apiReply[o].projErr
    /\ \A o \in refreshOrgs :
        orgPc[o] # "merged" =>
            EntriesOf(o) = <<>> /\ o \notin DOMAIN refreshOut.orgs
    /\ \A o \in refreshOrgs :
        orgPc[o] = "merged" =>
            /\ EntriesOf(o) =
                projectsToImportTargets(RefreshOrg(o), apiReply[o].projects,
                                        apiReply[o].integrations,
                                        integrationType).targets
            /\ RefreshOrg(o).name # "" =>
                /\ o \in DOMAIN refreshOut.orgs
                /\ refreshOut.orgs[o].name = RefreshOrg(o).name
    /\ DOMAIN refreshOut.integrations =
        UNION {IntegrationIds(o) :
                o \in {x \in refreshOrgs : orgPc[x] = "merged"}}

\* The projects fetch of the first org failed after its integrations were
\* listed; the second org, whose integrations differ, is in the output
\* with a target.
C17_Witness ==
    /\ Collected = RefreshOrgIds
    /\ orgPc["org-1"] = "failed"
    /\ ~apiReply["org-1"].intErr
    /\ orgRes["org-1"].orgMeta # <<>>
    /\ IntegrationIds("org-1") # IntegrationIds("org-2")
    /\ orgPc["org-2"] = "merged"
    /\ Len(EntriesOf("org-2")) >= 1

(***************************************************************************)
(* The specification of FetchProjects: one call against any server.        *)
(***************************************************************************)
FetchInit ==
    /\ SchedIdle /\ RetryIdle /\ GroupIdle /\ DedupIdle /\ ImportIdle
    /\ FetchStart /\ OrgsIdle

FetchSpec == FetchInit /\ [][FetchStep]_vars

\* FetchProjects is one sequential loop and every DoWithRetry call comes
\* back, so an iteration that can run does run.
FairFetchSpec == FetchInit /\ [][FetchStep]_vars /\ WF_vars(FetchStep)

(***************************************************************************)
(* Claims about FetchProjects.                                             *)
(***************************************************************************)
\* Whether host name h is a sub-domain of the API host.
SubdomainOfApi(h) ==
    \E n \in 1..Len(h) :
        /\ h[n] = "."
        /\ SubSeq(h, n + 1, Len(h)) = ApiHostName

C18_BlockedWaitFailsOnCancel ==
    [][\A c \in CallerIds :
        (rpc[c] = "parked" /\ ctxDone /\ rpc'[c] # "parked") =>
            /\ rpc'[c] = "returned"
            /\ ret'[c] = Returned(NoResp, "rate limiter", NoErr, NoResp)
            /\ dispatched'[c] = dispatched[c]]_vars

\* The context is cancelled while a caller is blocked in the wait before a
\* retry, and a tick has arrived since.
C18_Witness ==
    /\ ctxDone
    /\ \E c \in callers :
        /\ rpc[c] = "parked"
        /\ dispatched[c] >= 1
        /\ tickerC[rlim[c]] = "tick"

\* C19: the backoff sleep between attempts is cancellable: a caller whose
\* context is cancelled while it sleeps leaves the sleep only by returning
\* the cancellation error, without sitting out the delay, and it
\* dispatches no further attempt.
C19_BackoffSleepCancellable ==
    [][\A c \in CallerIds :
        (rpc[c] = "sleep" /\ ctxDone /\ rpc'[c] # "sleep") =>
            /\ rpc'[c] = "returned"
            /\ ret'[c].err \in {"context canceled", "rate limiter"}
            /\ dispatched'[c] = dispatched[c]]_vars

\* C20: once the context is cancelled, a worker that has not acquired a
\* pool slot never acquires one and so starts no fetch; and a fetch that
\* starts after the cancellation only fails, so that no result built after
\* it is merged as valid.
C20_NoSlotAfterCancel ==
    [][\A o \in OrgIds :
        /\ (ctxDone /\ wpc[o] \in {"none", "start"}) =>
                wpc'[o] \in {"none", "start"}
        /\ intSt[o] = "doomed" => intSt'[o] \in {"doomed", "err"}
        /\ projSt[o] = "doomed" => projSt'[o] \in {"doomed", "err"}]_vars

(***************************************************************************)
(* Claims about the statuses DoWithRetry hands back and the retry delay.   *)
(***************************************************************************)

\* The statuses that are neither 2xx, nor 401, nor in the retryable set.
PassedThrough(outcome) ==
    /\ outcome.kind = "status"
    /\ ~(outcome.code >= 200 /\ outcome.code < 300)
    /\ outcome.code # 401
    /\ outcome.code \notin {408, 429, 500, 502, 503, 504, 530}

\* C21: a response whose status is neither 2xx, nor 401, nor retryable ends
\* DoWithRetry after that attempt: the call has returned that response with
\* a nil error, and the attempt that received it is the last one dispatched
\* (no sleep, no further attempt).
C21_OtherStatusReturnedAsIs ==
    \A c \in CallerIds :
        PassedThrough(lastOutcome[c]) =>
            /\ rpc[c] = "returned"
            /\ ret[c] = Returned(lastOutcome[c].code, "nil", NoErr, NoResp)
            /\ sleepFor[c] = 0
            /\ dispatched[c] = attempt[c] + 1

\* A 404 that arrives on the third attempt, after two retries.
C21_Witness ==
    \E c \in CallerIds :
        /\ PassedThrough(lastOutcome[c])
        /\ lastOutcome[c].code = 404
        /\ attempt[c] = 2
        /\ rpc[c] = "returned"

\* C22: while DoWithRetry waits after a response that leads to a retry, the
\* wait equals the Retry-After value when that header is a positive integer
\* number of seconds, and the computed backoff when the header is absent or
\* not an integer (an HTTP date).  A header of zero seconds is left open
\* here.  (Violated: only the 429 branch reads the header.)
C22_RetryAfterOverridesBackoff ==
    \A c \in CallerIds :
        (rpc[c] = "sleep" /\ lastOutcome[c].kind = "status") =>
            LET secs == Atoi(lastOutcome[c].retryAfter) IN
            /\ (secs.ok /\ secs.n > 0) => sleepFor[c] = secs.n
            /\ ~secs.ok =>
                  sleepFor[c] =
                      calculateBackoff(attempt[c], DefaultRetryConfig)

(***************************************************************************)
(* Claims about the answers of the fetches.                                *)
(***************************************************************************)

\* The refreshOrgResult of org o when ListIntegrations succeeds with the
\* map im and FetchProjects returned what fetchRet holds.
ResultOfFetch(o, im) ==
    processOrgForRefresh(RefreshOrg(o),
                         [intErr |-> FALSE,
                          projErr |-> fetchRet.err # "none",
                          integrations |-> im,
                          projects |-> fetchRet.projects],
                         "")

\* C23: when the first page request of FetchProjects is answered with 404,
\* the fetch returns an empty project list with a nil error, and the result
\* of the org carries no error (the collector counts it as processed, not
\* as failed) and no targets.
C23_FirstPageNotFoundIsEmpty ==
    (fetchPc = "returned" /\ lastStatus = 404 /\ Len(requested) = 1) =>
        /\ fetchRet = [projects |-> <<>>, err |-> "none"]
        /\ \A o \in RefreshOrgIds, im \in IntegrationMaps :
              /\ ResultOfFetch(o, im).err = "none"
              /\ ResultOfFetch(o, im).targets = <<>>

\* The first request of a fetch was answered with 404 and the call is over.
C23_Witness ==
    /\ fetchPc = "returned"
    /\ lastStatus = 404
    /\ requested = <<apiBase>>

(***************************************************************************)
(* The specification of FetchOrgs: one call against any server.            *)
(***************************************************************************)
OrgsInit ==
    /\ SchedIdle /\ RetryIdle /\ GroupIdle /\ DedupIdle /\ ImportIdle
    /\ FetchIdle /\ FetchOrgsStart

OrgsSpec == OrgsInit /\ [][OrgsStep]_vars

RECURSIVE Flatten(_)
Flatten(pages) ==
    IF pages = <<>> THEN <<>> ELSE Head(pages) \o Flatten(Tail(pages))

\* C24: FetchOrgs requests the pages 1, 2, 3, ... in order and goes on only
\* after pages of at least perPage (100) orgs; it returns without error
\* exactly after the first page with fewer orgs, with the concatenation of
\* all received pages in order; a failed request or a non-200 page makes it
\* return an error and no orgs.
C24_OrgPagesInOrderUntilShort ==
    /\ pagesRequested = [i \in 1 .. Len(pagesRequested) |-> i]
    /\ orgsPc = "loop" =>
          /\ Len(pagesRequested) = Len(orgPages)
          /\ \A i \in 1 .. Len(orgPages) : Len(orgPages[i]) >= perPage
    /\ (orgsPc = "returned" /\ orgsRet.err = "none") =>
          /\ Len(pagesRequested) = Len(orgPages)
          /\ \A i \in 1 .. Len(orgPages) :
                Len(orgPages[i]) < perPage <=> i = Len(orgPages)
          /\ orgsRet.orgs = Flatten(orgPages)
    /\ (orgsPc = "returned" /\ orgsRet.err # "none") =>
          /\ orgsRet.orgs = <<>>
          /\ \A i \in 1 .. Len(orgPages) : Len(orgPages[i]) >= perPage

\* Two full pages and a short third one have been returned together.
C24_Witness ==
    /\ orgsPc = "returned"
    /\ orgsRet.err = "none"
    /\ pagesRequested = <<1, 2, 3>>
    /\ Len(orgPages[1]) = perPage
    /\ Len(orgPages[3]) = 1
    /\ Len(orgsRet.orgs) > 2 * perPage

(***************************************************************************)
(* Claims about the grouping functions.                                    *)
(***************************************************************************)

\* Two projects of the same identity-key class: the same name and, with
\* considerOrigin, the same origin.
SameClass(p, q) ==
    /\ p.name = q.name
    /\ fnConsiderOrigin => p.origin = q.origin

\* The positions of the groups that hold project p.
GroupsOf(p) ==
    {n \in DOMAIN fnOut :
        \E i \in DOMAIN Members(fnOut[n]) : Members(fnOut[n])[i] = p}

\* C25: findDuplicateGroups and findDuplicateGroupsGroupWide return exactly
\* the identity-key classes of two or more projects: every group has at
\* least two members, all of them arguments of the same class, every
\* project is in at most one group and at most once in it, and any two
\* arguments of the same class are together in some group.
C25_GroupsAreKeyClasses ==
    fnPc = "returned" =>
        /\ \A n \in DOMAIN fnOut :
              LET mem == Members(fnOut[n])
              IN /\ Len(mem) >= 2
                 /\ \A i \in DOMAIN mem :
                       \E k \in DOMAIN fnList : fnList[k] = mem[i]
                 /\ \A i, j \in DOMAIN mem :
                       /\ SameClass(mem[i], mem[j])
                       /\ i # j => mem[i] # mem[j]
        /\ \A k \in DOMAIN fnList : Cardinality(GroupsOf(fnList[k])) <= 1
        /\ \A k, l \in DOMAIN fnList :
              (k # l /\ SameClass(fnList[k], fnList[l])) =>
                  /\ GroupsOf(fnList[k]) # {}
                  /\ GroupsOf(fnList[k]) = GroupsOf(fnList[l])

\* With considerOrigin, three projects of one name, two of them from
\* GitHub: the two form the only group and the third is in none.
C25_Witness ==
    /\ fnPc = "returned"
    /\ fnConsiderOrigin
    /\ Len(fnList) = 3
    /\ \A k \in DOMAIN fnList : fnList[k].name = "repo-a"
    /\ Cardinality({k \in DOMAIN fnList : fnList[k].origin = "github"}) = 2
    /\ Len(fnOut) = 1
    /\ Len(Members(fnOut[1])) = 2

(***************************************************************************)
(* The specification of the helper calls, and the claims about             *)
(* ProjectToTarget.                                                        *)
(***************************************************************************)
CallInit ==
    /\ SchedIdle /\ RetryIdle /\ CallStart /\ DedupIdle /\ ImportIdle
    /\ FetchIdle /\ OrgsIdle

CallSpec == CallInit /\ [][CallStep]_vars

TargetReturned == fnPc = "returned" /\ fnName = "ProjectToTarget"

OwnerRepoShape(t) ==
    /\ t.owner # <<>> /\ t.name # <<>>
    /\ t.projectKey = <<>> /\ t.repoSlug = <<>>

ProjectKeyShape(t) ==
    /\ t.projectKey # <<>> /\ t.repoSlug # <<>>
    /\ t.owner = <<>> /\ t.name = <<>> /\ t.branch = <<>>

\* C26: every Target that ProjectToTarget returns with ok=true has exactly
\* one of the two shapes populated: owner and name set with project-key and
\* repo-slug empty, or project-key and repo-slug set with owner, name and
\* branch empty.  (Violated: a segment of the display name may be empty.)
C26_ExactlyOneShape ==
    (TargetReturned /\ fnOut.ok) =>
        (OwnerRepoShape(fnOut.target) \/ ProjectKeyShape(fnOut.target))

\* The origins the conversion supports.
SupportedOrigins ==
    {"github", "github-cloud-app", "github-enterprise", "bitbucket-cloud",
     "bitbucket-connect-app", "bitbucket-cloud-app", "azure-repos",
     "bitbucket-server"}

\* The number of characters of s before the first ch, Len(s) if none.
LenBefore(s, ch) ==
    Cardinality({i \in DOMAIN s : \A j \in 1 .. i : s[j] # ch})

\* C27: for a supported origin ProjectToTarget keeps the part of the
\* display name before the first ':', takes what precedes its first '/' as
\* owner (project-key for bitbucket-server) and what follows, up to the
\* first '(', as repository (repo-slug); a name with no '/' before the
\* first ':' is rejected, and so is every unsupported origin.
C27_NameParsing ==
    TargetReturned =>
        LET base == SubSeq(fnList.name, 1, LenBefore(fnList.name, ":"))
            ownerLen == LenBefore(base, "/")
            owner == SubSeq(base, 1, ownerLen)
            rest == SubSeq(base, ownerLen + 2, Len(base))
            repo == SubSeq(rest, 1, LenBefore(rest, "("))
            t == fnOut.target
        IN IF fnList.origin \notin SupportedOrigins \/ ownerLen = Len(base)
           THEN ~fnOut.ok /\ t = NoTarget
           ELSE /\ fnOut.ok
                /\ IF fnList.origin = "bitbucket-server"
                   THEN /\ t.projectKey = owner /\ t.repoSlug = repo
                        /\ t.owner = <<>> /\ t.name = <<>>
                   ELSE /\ t.owner = owner /\ t.name = repo
                        /\ t.projectKey = <<>> /\ t.repoSlug = <<>>

\* "o/r(x):m" on a Bitbucket Server project has become o / r.
C27_Witness ==
    /\ TargetReturned
    /\ fnList.name = <<"o", "/", "r", "(", "x", ")", ":", "m">>
    /\ fnList.origin = "bitbucket-server"
    /\ fnOut.ok
    /\ fnOut.target.projectKey = <<"o">>
    /\ fnOut.target.repoSlug = <<"r">>

(***************************************************************************)
(* Claims about the branch and the origin filter of the conversion.        *)
(***************************************************************************)

\* The branch the conversion passes on: Branch, else TargetReference.
BranchOf(p) == IF p.branch = <<>> THEN p.targetReference ELSE p.branch

\* The only org of a conversion run, once its result is aggregated.
MergedOrgs == {o \in refreshOrgs : orgPc[o] = "merged"}

\* Whether the output holds a target of project p's repository with the
\* given branch, under the integration of p's origin.
HasTarget(p, o, branch) ==
    \E i \in DOMAIN refreshOut.targets :
        LET e == refreshOut.targets[i]
            repo == TargetOf(p).target
        IN /\ e.orgID = o
           /\ e.integrationID = IntegrationOf(p, o)
           /\ e.target.owner = repo.owner
           /\ e.target.name = repo.name
           /\ e.target.projectKey = repo.projectKey
           /\ e.target.repoSlug = repo.repoSlug
           /\ e.target.branch = branch

Converted(p, o) ==
    /\ TargetOf(p).ok
    /\ IntegrationOf(p, o) # ""
    /\ HasTarget(p, o, IF p.origin = "bitbucket-server" THEN <<>>
                       ELSE BranchOf(p))

\* The integration key of an origin.
MappedKey(origin) ==
    IF origin = "bitbucket-connect-app" THEN "bitbucket-cloud" ELSE origin

\* C29 as stated: with a non-empty filter a project is converted only if
\* the integration key of its origin is the filter.  (Violated: the filter
\* bitbucket-connect-app lets the projects of that origin through, whose
\* key is bitbucket-cloud.)
C29_FilterMatchesMappedKeyOnly ==
    \A o \in MergedOrgs :
        \A k \in DOMAIN apiReply[o].projects :
            LET p == apiReply[o].projects[k]
            IN (integrationType # "" /\ Converted(p, o)) =>
                  MappedKey(p.origin) = integrationType

\* C29, amended: with a non-empty filter a project is converted only if the
\* filter is its origin or the integration key of its origin; with an
\* empty filter every project of a supported origin that has an
\* integration and a name that parses is converted.
C29_FilterMatchesOriginOrMappedKey ==
    \A o \in MergedOrgs :
        \A k \in DOMAIN apiReply[o].projects :
            LET p == apiReply[o].projects[k]
            IN /\ (integrationType # "" /\ Converted(p, o)) =>
                     \/ p.origin = integrationType
                     \/ MappedKey(p.origin) = integrationType
               /\ (/\ integrationType = ""
                   /\ p.origin \in SupportedOrigins
                   /\ IntegrationOf(p, o) # ""
                   /\ TargetOf(p).ok) => Converted(p, o)

\* Under the filter bitbucket-cloud a bitbucket-connect-app project has
\* been converted and the GitHub project next to it has not.
C29_Witness ==
    \E o \in MergedOrgs :
        LET ps == apiReply[o].projects
        IN /\ integrationType = "bitbucket-cloud"
           /\ Len(ps) = 2
           /\ ps[1].origin = "github"
           /\ IntegrationOf(ps[1], o) # ""
           /\ TargetOf(ps[1]).ok
           /\ ~Converted(ps[1], o)
           /\ ps[2].origin = "bitbucket-connect-app"
           /\ Converted(ps[2], o)
           /\ Len(refreshOut.targets) = 1

(***************************************************************************)
(* The claim about calculateBackoff.                                       *)
(***************************************************************************)
BackoffReturned == fnPc = "returned" /\ fnName = "calculateBackoff"

RECURSIVE Power(_, _)
Power(base, n) == IF n = 0 THEN 1 ELSE base * Power(base, n - 1)

Minimum(a, b) == IF a <= b THEN a ELSE b

\* C30: calculateBackoff(attempt, cfg) is
\* min(InitialBackoff * BackoffFactor^attempt, MaxBackoff): it never
\* exceeds MaxBackoff and the next attempt's value is not smaller; with
\* 1 s, factor 2 and a cap of 30 s the attempts 0, 1, 2, 5 give 1 s, 2 s,
\* 4 s, 30 s.
C30_BackoffIsCappedPower ==
    BackoffReturned =>
        LET cfg == fnList.cfg
            att == fnList.attempt
        IN /\ fnOut = Minimum(cfg.InitialBackoff
                                * Power(cfg.BackoffFactor, att),
                              cfg.MaxBackoff)
           /\ fnOut <= cfg.MaxBackoff
           /\ fnOut <= calculateBackoff(att + 1, cfg)
           /\ cfg = DefaultRetryConfig =>
                 /\ att = 0 => fnOut = 1
                 /\ att = 1 => fnOut = 2
                 /\ att = 2 => fnOut = 4
                 /\ att = 5 => fnOut = 30

\* The default configuration at attempt 5: 32 s, capped to 30 s.
C30_Witness ==
    /\ BackoffReturned
    /\ fnList.cfg = DefaultRetryConfig
    /\ fnList.attempt = 5
    /\ fnOut = 30

(***************************************************************************)
(* Claims about what the two phases of the dedup command leave behind.     *)
(***************************************************************************)

\* Two projects of the same identity key.
SameIdentity(p, q) ==
    /\ p.name = q.name
    /\ considerOrigin => p.origin = q.origin

\* The scopes within which duplicates were looked for, each a set of orgs:
\* every scanned org by itself, or all scanned orgs together.  An org whose
\* scan failed is in no scope.
Scopes ==
    IF withinOrg
    THEN {{o} : o \in IF scanFailed = 0 THEN DedupOrgs
                      ELSE {orgsWithDuplicates[r].orgID :
                                r \in DOMAIN orgsWithDuplicates}}
    ELSE {{allProjectsInOrg[i].org : i \in DOMAIN allProjectsInOrg}}

\* The projects the orgs of scope S still have on the remote API.
Remaining(S) ==
    UNION {{remoteProjects[o][i] : i \in DOMAIN remoteProjects[o]} : o \in S}

AllDeletesSucceeded ==
    \A i \in DOMAIN deleteProjectCalls : deleteProjectCalls[i].ok

KeyNames ==
    {<<"/", "r">>, <<"o", "/">>, <<"o", "/", "r">>, <<"r", "/", "o">>}

\* Pairs <<Branch, TargetReference>>: no branch, the branch o, the branch r.
KeyBranches == {<<<<>>, <<>>>>, <<<<"o">>, <<>>>>, <<<<"r">>, <<>>>>}

KeyInit ==
    /\ SchedIdle /\ RetryIdle /\ GroupIdle /\ DedupIdle /\ FetchIdle
    /\ OrgsIdle
    /\ ImportStart({"org-1"}, {""},
                   OkReplies({m \in IntegrationMaps : "github" \in DOMAIN m},
                             ImportProjects({"github", "bitbucket-server"},
                                            KeyNames, KeyBranches),
                             MaxImportProjects))

KeySpec == KeyInit /\ [][ImportStep]_vars

\* C32: within one org and integration every distinct target among the
\* convertible projects is listed exactly once: for each convertible
\* project the output holds exactly one entry that equals its target field
\* by field.  (Violated: targets with an empty owner or name share their
\* key string with other targets, and the later one is dropped.)
C32_EveryDistinctTargetListedOnce ==
    \A o \in MergedOrgs :
        \A k \in DOMAIN apiReply[o].projects :
            LET p == apiReply[o].projects[k]
            IN Convertible(p, o) =>
                  Cardinality({i \in DOMAIN refreshOut.targets :
                                  refreshOut.targets[i] = EntryOf(p, o)}) = 1

(***************************************************************************)
(* Claims about the join of the two fetches, the limiter and the           *)
(* aggregation.                                                            *)
(***************************************************************************)
PastJoin(o) == wpc[o] \in {"sent", "released", "done"}

\* C33: in the refresh command a worker is past innerWg.Wait() -- it has
\* read the two results, converted and sent -- only when both the
\* integrations fetch and the projects fetch have returned; the fetches
\* return in either order, and the error of the result sent is the one the
\* two outcomes determine.
C33_ConversionAfterBothFetches ==
    \A o \in OrgIds :
        (command = "refresh" /\ PastJoin(o)) =>
            /\ intSt[o] \in {"ok", "err"}
            /\ projSt[o] \in {"ok", "err"}
            /\ \A i \in DOMAIN results :
                  results[i].org = o =>
                      results[i].err =
                          IF intSt[o] = "err" THEN "integrations"
                          ELSE IF projSt[o] = "err" THEN "projects"
                          ELSE "none"

\* One worker is past the join while in the other the projects fetch has
\* returned and the integrations fetch has not.
C33_Witness ==
    /\ command = "refresh"
    /\ \E o, q \in OrgIds :
        /\ PastJoin(o)
        /\ intSt[o] = "ok" /\ projSt[o] = "ok"
        /\ wpc[q] = "fetching"
        /\ projSt[q] = "ok"
        /\ intSt[q] = "running"


\* C34: all callers of DoWithRetry wait on one and the same limiter: the
\* limiters that callers have taken from the package variable are never two
\* different ones, also when the first calls are made concurrently.
C34_OneLimiterForAllCallers ==
    \A c \in callers : \A d \in callers :
        (rlim[c] # NoLimiter /\ rlim[d] # NoLimiter) => rlim[c] = rlim[d]

\* The output runRefresh builds when the results of the orgs of S arrive
\* in one fixed order.
RECURSIVE MergedInFixedOrder(_)
MergedInFixedOrder(S) ==
    IF S = {} THEN EmptyOutput
    ELSE LET o == CHOOSE x \in S : TRUE
         IN mergeRefreshResult(
                MergedInFixedOrder(S \ {o}),
                processOrgForRefresh(RefreshOrg(o), apiReply[o],
                                     integrationType))

TargetSet(output) == {output.targets[i] : i \in DOMAIN output.targets}

\* Two outputs that differ in the order of their Targets at most.
SameOutput(a, b) ==
    /\ TargetSet(a) = TargetSet(b)
    /\ Len(a.targets) = Len(b.targets)
    /\ a.orgs = b.orgs
    /\ a.integrations = b.integrations

\* C35: the export output does not depend on the order in which the
\* results of the orgs reach the collector: at every moment, and so at the
\* end, its set of targets, its org metadata and its integration metadata
\* are those of merging the collected results in one fixed order; nothing
\* but the collector's loop has put anything into it.
C35_OutputIndependentOfArrivalOrder ==
    SameOutput(refreshOut, MergedInFixedOrder(Collected))

\* Both orgs are merged, each gave a target, and the targets of the org
\* that MergedInFixedOrder takes last came first.
C35_Witness ==
    /\ Collected = RefreshOrgIds
    /\ \A o \in RefreshOrgIds : orgPc[o] = "merged" /\ EntriesOf(o) # <<>>
    /\ refreshOut.targets # MergedInFixedOrder(refreshOrgs).targets

\* The orgs in which Phase 1 deleted a project.
OrgsWithDeletion ==
    {deleteProjectCalls[i].org :
        i \in {j \in DOMAIN deleteProjectCalls : deleteProjectCalls[j].ok}}

\* The orgs that own a deletion candidate.
OrgsWithCandidate == {c.org : c \in Candidates}

\* C36: the set of orgs that drives Phase 2 holds exactly the orgs in which
\* Phase 1 deleted at least one project (with --delete) or that own at
\* least one deletion candidate (dry run); group-wide, the org of a group's
\* survivor is in the set only if it owns a candidate too.
C36_Phase2OrgsHadDeletionOrCandidate ==
    Phase1Over =>
        orgsAffected = IF doDelete THEN OrgsWithDeletion
                       ELSE OrgsWithCandidate

\* The DeleteTarget calls that returned ok, or that failed.
TargetCalls(ok) ==
    {i \in DOMAIN deleteTargetCalls : deleteTargetCalls[i].ok = ok}

\* C38: when the Phase 2 fetch of an org's targets or of its projects
\* fails, no DeleteTarget call is made and no orphan is reported for that
\* org and the target counts hold nothing of it; every other affected org
\* is still processed: when the command is done each affected org was
\* either skipped after a failed fetch or has had all its orphans handled.
C38_FailedCleanupFetchSkipsOrgOnly ==
    /\ \A o \in p2Skipped : Handled(o) = {}
    /\ targetsDeleted = Cardinality(TargetCalls(TRUE)) + Len(reportedTargets)
    /\ targetsFailed = Cardinality(TargetCalls(FALSE))
    /\ p2Skipped \subseteq orgsAffected \ p2Orgs
    /\ dpc = "done" =>
        \A o \in orgsAffected \ p2Skipped : Handled(o) = Orphaned(o)

\* The fetch failed for org-1, which has an orphan, and the cleanup went
\* on to org-2 and handled an orphan there.
C38_Witness ==
    /\ dpc = "done"
    /\ p2Skipped = {"org-1"}
    /\ Orphaned("org-1") # {}
    /\ Handled("org-2") # {}

\* The targets of org o the dry run reported as empty.
ReportedIn(o) ==
    {reportedTargets[i].id :
        i \in {j \in DOMAIN reportedTargets : reportedTargets[j].org = o}}

\* The targets of org o that DeleteTarget removed.
RemovedIn(o) ==
    {deleteTargetCalls[i].id :
        i \in {j \in DOMAIN deleteTargetCalls :
                 deleteTargetCalls[j].org = o /\ deleteTargetCalls[j].ok}}

\* The targets of org o that share their display name with another target
\* of o and that no project of o other than a deletion candidate
\* references: what is left unreferenced once every candidate is deleted.
UnreferencedBySurvivors(o) ==
    {InitialTargets[o][i].id :
        i \in {j \in DOMAIN InitialTargets[o] :
                /\ \E k \in DOMAIN InitialTargets[o] :
                    /\ k # j
                    /\ InitialTargets[o][k].displayName
                          = InitialTargets[o][j].displayName
                /\ ~\E n \in DOMAIN remoteProjects[o] :
                    /\ remoteProjects[o][n].target = InitialTargets[o][j].id
                    /\ remoteProjects[o][n] \notin CandidateProjects}}

EveryDeleteSucceeded ==
    /\ totalFailed = 0 /\ targetsFailed = 0 /\ p2Skipped = {}

ProjectsServed == Concat([i \in DOMAIN served |-> served[i].items])

\* C40: a 404 on any page of FetchProjects, the first or a later one, ends
\* the fetch with a nil error and the projects of the pages before it;
\* any other status that is not 200, on any page, ends it with an error
\* and no project list.
C40_NotFoundKeepsEarlierPages ==
    fetchPc = "returned" =>
        /\ lastStatus = 404 =>
            /\ fetchRet = [projects |-> ProjectsServed, err |-> "none"]
            /\ Len(requested) = Len(served) + 1
        /\ lastStatus \notin {0, 200, 404} =>
            fetchRet = [projects |-> <<>>, err |-> "status"]

\* The third request was answered with 404 after two pages with a project
\* each: the call returned both projects and no error.
C40_Witness ==
    /\ fetchPc = "returned"
    /\ lastStatus = 404
    /\ Len(requested) = 3
    /\ fetchRet = [projects |-> <<1, 2>>, err |-> "none"]

\* Whether the loop follows links.next, and the URL it then requests.
Followed(link) == isAllowedNextURL(link, HostOf(apiBase))

Resolved(link) == IF link.form = "relative" THEN apiBase ELSE link

\* The requests are the first URL and then, one for one and in order, the
\* link of each page served; no page is requested again.
ChainRequestedInOrder ==
    /\ requested # <<>> => requested[1] = apiBase
    /\ Len(served) <= Len(requested)
    /\ Len(requested) <= Len(served) + 1
    /\ \A i \in 1..Len(requested) - 1 :
        /\ Followed(served[i].link)
        /\ requested[i + 1] = Resolved(served[i].link)
    /\ fetchPc = "loop" => Len(requested) = Len(served)

\* A call that returned without error returned the projects of all its
\* pages, in the order of the pages.
ResultIsConcatenation ==
    (fetchPc = "returned" /\ fetchRet.err = "none") =>
        fetchRet.projects = ProjectsServed

\* The loop was left on a next link that is absent, empty or rejected.
EndedOnLink ==
    /\ lastStatus = 200
    /\ fetchRet.err = "none"
    /\ Len(served) = Len(requested)
    /\ ~Followed(served[Len(served)].link)

\* The loop was left on a 404, on another status that is not 200, or on a
\* failure of the transport.
EndedOnAnswer ==
    \/ lastStatus = 404 /\ fetchRet.err = "none"
    \/ lastStatus \notin {0, 200, 404} /\ fetchRet.err = "status"
    \/ lastStatus = 0 /\ fetchRet.err = "fetch projects"

\* The loop was left on a 200 whose body json.Unmarshal rejected.
EndedOnUndecodableBody ==
    lastStatus = 200 /\ fetchRet.err = "decode projects"

=============================================================================
